---- MODULE Spec2Model ----
(***************************************************************************)
(* Model of vlciptv_recorder.py: the recording scheduler (App._schedule_   *)
(* task and its helpers) and the live session supervisor (WaitRecordLive). *)
(*                                                                         *)
(* Time is local wall-clock time in whole seconds since 00:00:00 of day 0. *)
(* Text is a sequence of string tokens (Str): a token is either a single   *)
(* separator character (" ", ".", "\\", "\"") or a run of characters       *)
(* that contains none of them.                                             *)
(***************************************************************************)
EXTENDS Integers, Sequences, FiniteSets, Bags, TLC

\* ------------------------------------------------------------- bounds
\* presses of the schedule buttons in one behaviour
MaxRuns == 2

\* ------------------------------------------------------ time helpers
SecPerMin == 60
SecPerHour == 60 * SecPerMin
SecPerDay == 24 * SecPerHour

DateOf(t) == t \div SecPerDay
HourOf(t) == (t % SecPerDay) \div SecPerHour
MinuteOf(t) == (t % SecPerHour) \div SecPerMin
SecondOf(t) == t % SecPerMin
At(d, hh, mm, ss) == d * SecPerDay + hh * SecPerHour + mm * SecPerMin + ss

Max(a, b) == IF a >= b THEN a ELSE b
Min(a, b) == IF a <= b THEN a ELSE b

\* two decimal digits, as strftime's %H, %M, %m, %d print them
Pad2(n) == IF n < 10 THEN "0" \o ToString(n) ELSE ToString(n)

\* datetime.replace(hour=hh, minute=mm, second=0, microsecond=0)
ReplaceHM(base, hh, mm) == At(DateOf(base), hh, mm, 0)

\* ------------------------------------------------------ text helpers
RECURSIVE Concat(_)
Concat(ss) == IF ss = <<>> THEN <<>> ELSE Head(ss) \o Concat(Tail(ss))

RECURSIVE Join(_, _)
Join(sep, ss) ==
    IF ss = <<>> THEN <<>>
    ELSE IF Len(ss) = 1 THEN Head(ss)
    ELSE Head(ss) \o sep \o Join(sep, Tail(ss))

HasSpace(s) == \E i \in 1..Len(s) : s[i] = " "

\* tokens a regular expression class [A-Za-z0-9_-] does not match
UnsafeInTaskName == {" ", ".", "\\", "\"", ":", "/"}
\* tokens the class [A-Za-z0-9._-] does not match
UnsafeInFileName == {" ", "\\", "\"", ":", "/"}

\* re.sub(r"[^...]+", "_", s): every maximal run of unsafe tokens becomes one "_"
RECURSIVE SubUnsafe(_, _, _)
SubUnsafe(s, unsafe, inRun) ==
    IF s = <<>> THEN <<>>
    ELSE IF Head(s) \in unsafe
         THEN (IF inRun THEN <<>> ELSE <<"_">>) \o SubUnsafe(Tail(s), unsafe, TRUE)
         ELSE <<Head(s)>> \o SubUnsafe(Tail(s), unsafe, FALSE)

EndsWithMp4(s) ==
    Len(s) >= 2 /\ s[Len(s) - 1] = "." /\ s[Len(s)] \in {"mp4", "MP4", "Mp4"}

\* ------------------------------------------------ program constants
APP_PREFIX == <<"IPTV", "_", "DVR", "_">>
UA == <<"VLC/3", ".", "0", ".", "20">>
\* DEFAULTS["out_dir"]
OUT_DIR == <<"D", ":", "\\", "DVR", " ", "Recordings">>
QUALITY_OPTS ==
    [q \in {"High", "Medium", "Low"} |->
        CASE q = "High"   -> [mode |-> "copy",  v_bitrate |-> "",      a_bitrate |-> ""]
          [] q = "Medium" -> [mode |-> "trans", v_bitrate |-> "4500k", a_bitrate |-> "128k"]
          [] q = "Low"    -> [mode |-> "trans", v_bitrate |-> "2500k", a_bitrate |-> "96k"]]
\* dur_s = 2*3600 + 5*60 when the duration field is empty
DefaultDuration == 2 * SecPerHour + 5 * SecPerMin
weekday_map == <<"MON", "TUE", "WED", "THU", "FRI", "SAT", "SUN">>
\* datetime.weekday(): day 0 of the model is a Monday
Weekday(t) == DateOf(t) % 7

\* ------------------------------------------------ the form's contents
\* day_var after .strip().lower(): "", "today", "tomorrow", a %Y-%m-%d date
\* (day number d), or text strptime rejects
DayEmpty == [k |-> "empty", d |-> 0]
DayToday == [k |-> "today", d |-> 0]
DayTomorrow == [k |-> "tomorrow", d |-> 0]
DayDate(d) == [k |-> "date", d |-> d]
DayBad == [k |-> "bad", d |-> 0]

\* time_var: m says whether (\d{1,2}):(\d{2})(?:\s*(am|pm))? matches it
TimeHM(hh, mm, ap) == [m |-> TRUE, hh |-> hh, mm |-> mm, ap |-> ap]
TimeNoMatch == [m |-> FALSE, hh |-> 0, mm |-> 0, ap |-> ""]

\* dur_var: "" | H:MM:SS | NhNmNs (a part of -1 is a part left out) | N | other
DurEmpty == [k |-> "empty", h |-> 0, m |-> 0, s |-> 0]
DurHMS(h, m, s) == [k |-> "hms", h |-> h, m |-> m, s |-> s]
DurTok(h, m, s) == [k |-> "tok", h |-> h, m |-> m, s |-> s]
DurMin(n) == [k |-> "min", h |-> 0, m |-> n, s |-> 0]
DurBad == [k |-> "bad", h |-> 0, m |-> 0, s |-> 0]

\* ------------------------------------------------ pure functions
DateText(t) == "d" \o ToString(DateOf(t))

\* parse_duration(s): seconds, or err
parse_duration(s) ==
    CASE s.k = "hms" -> [err |-> FALSE, v |-> s.h * 3600 + s.m * 60 + s.s]
      [] s.k = "tok" /\ (s.h >= 0 \/ s.m >= 0 \/ s.s >= 0) ->
            [err |-> FALSE,
             v |-> Max(s.h, 0) * 3600 + Max(s.m, 0) * 60 + Max(s.s, 0)]
      [] s.k = "min" -> [err |-> FALSE, v |-> s.m * 60]
      [] OTHER -> [err |-> TRUE, v |-> 0]

\* mutant of parse_when: replace(hour=, minute=) without second=0
parse_when_keeps_seconds(day, tm, now) ==
    LET base == CASE day.k \in {"empty", "today"} -> now
                  [] day.k = "tomorrow" -> now + SecPerDay
                  [] OTHER -> At(day.d, 0, 0, 0)
        hh == IF tm.ap = "pm" /\ tm.hh # 12 THEN tm.hh + 12
              ELSE IF tm.ap = "am" /\ tm.hh = 12 THEN 0
              ELSE tm.hh
    IN  IF day.k = "bad" THEN [err |-> "date", at |-> 0]
        ELSE IF ~tm.m THEN [err |-> "time", at |-> 0]
        ELSE IF hh > 23 \/ tm.mm > 59 THEN [err |-> "range", at |-> 0]
        ELSE [err |-> "", at |-> ReplaceHM(base, hh, tm.mm) + SecondOf(base)]

\* mutant of parse_when: an hour or minute out of range wraps around
parse_when_wraps_range(day, tm, now) ==
    LET base == CASE day.k \in {"empty", "today"} -> now
                  [] day.k = "tomorrow" -> now + SecPerDay
                  [] OTHER -> At(day.d, 0, 0, 0)
        hh == IF tm.ap = "pm" /\ tm.hh # 12 THEN tm.hh + 12
              ELSE IF tm.ap = "am" /\ tm.hh = 12 THEN 0
              ELSE tm.hh
    IN  IF day.k = "bad" THEN [err |-> "date", at |-> 0]
        ELSE IF ~tm.m THEN [err |-> "time", at |-> 0]
        ELSE [err |-> "", at |-> ReplaceHM(base, hh % 24, tm.mm % 60)]

\* App._parse_when with the clock reading `now`
parse_when(day, tm, now) ==
    LET base == CASE day.k \in {"empty", "today"} -> now
                  [] day.k = "tomorrow" -> now + SecPerDay
                  [] OTHER -> At(day.d, 0, 0, 0)
        hh == IF tm.ap = "pm" /\ tm.hh # 12 THEN tm.hh + 12
              ELSE IF tm.ap = "am" /\ tm.hh = 12 THEN 0
              ELSE tm.hh
    IN  IF day.k = "bad" THEN [err |-> "date", at |-> 0]
        ELSE IF ~tm.m THEN [err |-> "time", at |-> 0]
        ELSE IF hh > 23 \/ tm.mm > 59 THEN [err |-> "range", at |-> 0]
        ELSE [err |-> "", at |-> ReplaceHM(base, hh, tm.mm)]

\* mutant of ensure_future_start: only the literal "today" is rolled forward
ensure_future_start_today_only(start_at, now, day, tm) ==
    IF start_at > now
    THEN [ok |-> TRUE, at |-> start_at, notice |-> "none", day |-> day, tm |-> tm]
    ELSE IF day.k = "today"
    THEN LET bumped == start_at + SecPerDay
         IN  [ok |-> TRUE, at |-> bumped, notice |-> "moved",
              day |-> DayDate(DateOf(bumped)),
              tm |-> TimeHM(HourOf(bumped), MinuteOf(bumped), "")]
    ELSE [ok |-> FALSE, at |-> 0, notice |-> "past", day |-> day, tm |-> tm]

\* mutant of ensure_future_start: an explicit date is rolled forward too
ensure_future_start_rolls_dates(start_at, now, day, tm) ==
    IF start_at > now
    THEN [ok |-> TRUE, at |-> start_at, notice |-> "none", day |-> day, tm |-> tm]
    ELSE IF day.k \in {"empty", "today", "date"}
    THEN LET bumped == start_at + SecPerDay
         IN  [ok |-> TRUE, at |-> bumped, notice |-> "moved",
              day |-> DayDate(DateOf(bumped)),
              tm |-> TimeHM(HourOf(bumped), MinuteOf(bumped), "")]
    ELSE [ok |-> FALSE, at |-> 0, notice |-> "past", day |-> day, tm |-> tm]

\* App._ensure_future_start with the clock reading `now`: the start to use
\* (ok = FALSE for None), the message box shown, and the form fields it sets
ensure_future_start(start_at, now, day, tm) ==
    IF start_at > now
    THEN [ok |-> TRUE, at |-> start_at, notice |-> "none", day |-> day, tm |-> tm]
    ELSE IF day.k \in {"empty", "today"}
    THEN LET bumped == start_at + SecPerDay
         IN  [ok |-> TRUE, at |-> bumped, notice |-> "moved",
              day |-> DayDate(DateOf(bumped)),
              tm |-> TimeHM(HourOf(bumped), MinuteOf(bumped), "")]
    ELSE [ok |-> FALSE, at |-> 0, notice |-> "past", day |-> day, tm |-> tm]

\* the start buffer of _schedule_task: [start_at, dur_s] after it
apply_start_buffer(start_at, dur_s, enabled, minutes) ==
    IF enabled
    THEN LET mins == Max(0, minutes)
         IN  [start_at |-> start_at - mins * SecPerMin, dur_s |-> dur_s + mins * 60]
    ELSE [start_at |-> start_at, dur_s |-> dur_s]

\* mutant of apply_end_buffer: the end buffer moves the start as the start buffer does
apply_end_buffer_moves_start(start_at, dur_s, enabled, minutes) ==
    IF enabled
    THEN [start_at |-> start_at - Max(0, minutes) * SecPerMin,
          dur_s |-> dur_s + Max(0, minutes) * 60]
    ELSE [start_at |-> start_at, dur_s |-> dur_s]

\* the end buffer of _schedule_task
apply_end_buffer(start_at, dur_s, enabled, minutes) ==
    IF enabled
    THEN [start_at |-> start_at, dur_s |-> dur_s + Max(0, minutes) * 60]
    ELSE [start_at |-> start_at, dur_s |-> dur_s]

RECURSIVE StripTrailingDots(_)
StripTrailingDots(s) ==
    IF s # <<>> /\ s[Len(s)] = "." THEN StripTrailingDots(SubSeq(s, 1, Len(s) - 1))
    ELSE s

\* App._auto_filename (channel names of the model are shorter than 60 characters)
auto_filename(ch_name, start_at) ==
    LET safe == SubUnsafe(ch_name, UnsafeInFileName, FALSE)
        stem == safe \o <<"_", DateText(start_at), "_",
                          Pad2(HourOf(start_at)) \o "-" \o Pad2(MinuteOf(start_at))>>
    IN  StripTrailingDots(stem) \o <<".", "mp4">>

\* mutant of build_ffmpeg_cmd: -t is given before -i
build_ffmpeg_cmd_duration_first(ffmpeg, stream_url, out_path, duration_s, qopt, crash_safe) ==
    LET base == << ffmpeg, <<"-hide_banner">>, <<"-loglevel">>, <<"info">>, <<"-stats">>,
                   <<"-user_agent">>, UA,
                   <<"-reconnect">>, <<"1">>, <<"-reconnect_streamed">>, <<"1">>,
                   <<"-reconnect_at_eof">>, <<"1">>,
                   <<"-t">>, <<ToString(duration_s)>>, <<"-i">>, stream_url >>
        frag == <<"+faststart", "+frag_keyframe", "+empty_moov", "+default_base_moof">>
        mov == IF crash_safe THEN frag ELSE <<"+faststart">>
    IN  IF qopt.mode = "copy"
        THEN base \o << <<"-c">>, <<"copy">>, <<"-movflags">>, mov, out_path >>
        ELSE base \o << <<"-map">>, <<"0:v:0?">>, <<"-map">>, <<"0:a:0?">>,
                        <<"-c:v">>, <<"libx264">>, <<"-preset">>, <<"veryfast">>,
                        <<"-b:v">>, <<qopt.v_bitrate>>, <<"-maxrate">>, <<qopt.v_bitrate>>,
                        <<"-bufsize">>, <<"2M">>,
                        <<"-c:a">>, <<"aac">>, <<"-b:a">>, <<qopt.a_bitrate>>,
                        <<"-movflags">>, mov, out_path >>

\* mutant of build_ffmpeg_cmd: a transcode never gets the fragmented flags
build_ffmpeg_cmd_frag_in_copy_only(ffmpeg, stream_url, out_path, duration_s, qopt, crash_safe) ==
    LET base == << ffmpeg, <<"-hide_banner">>, <<"-loglevel">>, <<"info">>, <<"-stats">>,
                   <<"-user_agent">>, UA,
                   <<"-reconnect">>, <<"1">>, <<"-reconnect_streamed">>, <<"1">>,
                   <<"-reconnect_at_eof">>, <<"1">>,
                   <<"-i">>, stream_url, <<"-t">>, <<ToString(duration_s)>> >>
        frag == <<"+faststart", "+frag_keyframe", "+empty_moov", "+default_base_moof">>
        mov == IF crash_safe /\ qopt.mode = "copy" THEN frag ELSE <<"+faststart">>
    IN  IF qopt.mode = "copy"
        THEN base \o << <<"-c">>, <<"copy">>, <<"-movflags">>, mov, out_path >>
        ELSE base \o << <<"-map">>, <<"0:v:0?">>, <<"-map">>, <<"0:a:0?">>,
                        <<"-c:v">>, <<"libx264">>, <<"-preset">>, <<"veryfast">>,
                        <<"-b:v">>, <<qopt.v_bitrate>>, <<"-maxrate">>, <<qopt.v_bitrate>>,
                        <<"-bufsize">>, <<"2M">>,
                        <<"-c:a">>, <<"aac">>, <<"-b:a">>, <<qopt.a_bitrate>>,
                        <<"-movflags">>, mov, out_path >>

\* build_ffmpeg_cmd: the argument list, each argument a Str
build_ffmpeg_cmd(ffmpeg, stream_url, out_path, duration_s, qopt, crash_safe) ==
    LET base == << ffmpeg, <<"-hide_banner">>, <<"-loglevel">>, <<"info">>, <<"-stats">>,
                   <<"-user_agent">>, UA,
                   <<"-reconnect">>, <<"1">>, <<"-reconnect_streamed">>, <<"1">>,
                   <<"-reconnect_at_eof">>, <<"1">>,
                   <<"-i">>, stream_url, <<"-t">>, <<ToString(duration_s)>> >>
        frag == <<"+faststart", "+frag_keyframe", "+empty_moov", "+default_base_moof">>
        mov == IF crash_safe THEN frag ELSE <<"+faststart">>
    IN  IF qopt.mode = "copy"
        THEN base \o << <<"-c">>, <<"copy">>, <<"-movflags">>, mov, out_path >>
        ELSE base \o << <<"-map">>, <<"0:v:0?">>, <<"-map">>, <<"0:a:0?">>,
                        <<"-c:v">>, <<"libx264">>, <<"-preset">>, <<"veryfast">>,
                        <<"-b:v">>, <<qopt.v_bitrate>>, <<"-maxrate">>, <<qopt.v_bitrate>>,
                        <<"-bufsize">>, <<"2M">>,
                        <<"-c:a">>, <<"aac">>, <<"-b:a">>, <<qopt.a_bitrate>>,
                        <<"-movflags">>, mov, out_path >>

\* the arguments that begin with "-" are the option names
StartsWithDash(c) == c # <<>> /\ c[1] \in
    {"-hide_banner", "-loglevel", "-stats", "-user_agent", "-reconnect",
     "-reconnect_streamed", "-reconnect_at_eof", "-i", "-t", "-c", "-movflags",
     "-map", "-c:v", "-preset", "-b:v", "-maxrate", "-bufsize", "-c:a", "-b:a", "-"}

RECURSIVE QuoteAll(_)
QuoteAll(cmd_list) ==
    IF cmd_list = <<>> THEN <<>>
    ELSE LET c == Head(cmd_list)
         IN  << IF HasSpace(c) /\ ~StartsWithDash(c) THEN <<"\"">> \o c \o <<"\"">> ELSE c >>
             \o QuoteAll(Tail(cmd_list))

\* App._write_task_wrapper: the script's path and its command line
write_task_wrapper(cmd_list, task_name) ==
    [script |-> task_name \o <<".", "cmd">>, cmd_str |-> Join(<<" ">>, QuoteAll(cmd_list))]

\* task_name = f"IPTV_DVR_{re.sub(r'[^A-Za-z0-9_-]+','_', base_name)}"
task_name_of(base_name) == APP_PREFIX \o SubUnsafe(base_name, UnsafeInTaskName, FALSE)

\* ------------------------------------------------------------ state
VARIABLES
    clock,           \* the wall clock, seconds
    \* App: the scheduling form and what the scheduler holds
    ffmpeg_path,     \* Str, <<>> for None
    channel,         \* get_selected_channel(): [name, url], name <<>> for None
    day_var, time_var, dur_var,
    buf_start_var, buf_start_min, buf_end_var, buf_end_min,
    filename_var, quality_var, crash_safe_var,
    tasks,           \* the OS scheduler's tasks: a set of records, one per name
    wrappers,        \* the wrapper scripts on disk: a set of [script, cmd_str]
    nCreate,         \* schtasks /Create invocations so far
    nRuns,           \* runs of _schedule_task so far
    last             \* what the latest run of _schedule_task did

formVars == <<day_var, time_var, dur_var, buf_start_var, buf_start_min, buf_end_var,
              buf_end_min, filename_var, quality_var, crash_safe_var, ffmpeg_path, channel>>
schedVars == <<formVars, tasks, wrappers, nCreate, nRuns, last>>

\* --------------------------------------------- the values the form takes
FFMPEG == <<"ffmpeg">>
NoChannel == [name |-> <<>>, url |-> <<>>]
Channels == {[name |-> <<"TV", " ", "1">>, url |-> <<"http", ":", "/", "/", "s", "/", "1">>]}
Today == 1
InitClocks == {At(Today, 19, 58, 30), At(Today, 23, 59, 59)}
DayInputs == {DayEmpty, DayToday, DayTomorrow, DayDate(Today), DayDate(Today + 1), DayBad}
TimeInputs == {TimeHM(19, 58, ""), TimeHM(20, 0, ""), TimeHM(0, 0, ""),
               TimeHM(8, 0, "pm"), TimeHM(13, 0, "pm"), TimeHM(20, 75, ""), TimeNoMatch}
DurInputs == {DurEmpty, DurHMS(1, 0, 0), DurHMS(0, 0, 0), DurMin(0), DurBad}
BufStartInputs == {<<FALSE, 5>>, <<TRUE, 0>>, <<TRUE, 5>>, <<TRUE, 120>>}
BufEndInputs == {<<FALSE, 5>>, <<TRUE, 2>>}
FileInputs == {<<>>}
\* seconds that pass between the clock readings of _parse_when and _ensure_future_start
Lags == {0, 1}
\* what subprocess.run does in run_schtasks: schtasks exits with a code, does not
\* exit within the timeout, or cannot be run at all
Exited(code) == [k |-> "exit", code |-> code]
TimedOut == [k |-> "timeout", code |-> 0]
NotRun == [k |-> "oserror", code |-> 0]
RunOutcomes == {Exited(0), Exited(1), TimedOut, NotRun}

\* mutant of run_schtasks: an invocation that failed is made once more
run_schtasks_retries(outcome) ==
    [rc |-> CASE outcome.k = "timeout" -> 124
              [] outcome.k = "oserror" -> 125
              [] OTHER -> outcome.code,
     calls |-> IF outcome = Exited(0) THEN 1 ELSE 2]

\* run_schtasks: the return code, and the number of times schtasks was invoked
run_schtasks(outcome) ==
    [rc |-> CASE outcome.k = "timeout" -> 124
              [] outcome.k = "oserror" -> 125
              [] OTHER -> outcome.code,
     calls |-> 1]

NoLast ==
    [k |-> "none", recurring |-> FALSE, now1 |-> 0, now2 |-> 0,
     day_in |-> DayEmpty, tm_in |-> TimeNoMatch,
     parsed |-> 0, nominal |-> 0, start_at |-> 0, req_dur |-> 0, dur_s |-> 0,
     m |-> 0, n |-> 0, notice |-> "none", ok |-> FALSE, issued |-> FALSE, rc |-> 0,
     task_name |-> <<>>, out_path |-> <<>>, existed |-> FALSE]

InitSched ==
    /\ clock \in InitClocks
    /\ ffmpeg_path \in {<<>>, FFMPEG}
    /\ channel \in Channels \cup {NoChannel}
    /\ day_var \in DayInputs
    /\ time_var \in TimeInputs
    /\ dur_var \in DurInputs
    /\ \E b \in BufStartInputs : buf_start_var = b[1] /\ buf_start_min = b[2]
    /\ \E b \in BufEndInputs : buf_end_var = b[1] /\ buf_end_min = b[2]
    \* before FFmpeg is ready and a channel is picked the form is as construction left
    \* it, the buffers as the saved configuration has them
    /\ (ffmpeg_path = <<>> \/ channel = NoChannel) =>
          /\ day_var = DayToday /\ time_var = TimeHM(20, 0, "") /\ dur_var = DurEmpty
          /\ buf_start_var /\ buf_start_min = 5 /\ buf_end_var /\ buf_end_min = 2
    /\ filename_var \in FileInputs
    /\ quality_var = "High"
    /\ crash_safe_var = FALSE
    /\ tasks = {}
    /\ wrappers = {}
    /\ nCreate = 0
    /\ nRuns = 0
    /\ last = NoLast

\* ------------------------------------------------- App._schedule_task
\* mutant of create_args: the /F option is left out
create_args_without_force(recurring, task_name, wrapper, start_at) ==
    LET run_date == <<DateText(start_at)>>
        run_time == <<Pad2(HourOf(start_at)) \o ":" \o Pad2(MinuteOf(start_at))>>
        daycode == <<weekday_map[Weekday(start_at) + 1]>>
    IN  IF recurring
        THEN << <<"schtasks">>, <<"/Create">>, <<"/SC">>, <<"WEEKLY">>, <<"/D">>, daycode,
                <<"/TN">>, task_name, <<"/TR">>, wrapper, <<"/ST">>, run_time,
                <<"/SD">>, run_date >>
        ELSE << <<"schtasks">>, <<"/Create">>, <<"/SC">>, <<"ONCE">>,
                <<"/TN">>, task_name, <<"/TR">>, wrapper, <<"/ST">>, run_time,
                <<"/SD">>, run_date >>

\* the schtasks /Create argument list
create_args(recurring, task_name, wrapper, start_at) ==
    LET run_date == <<DateText(start_at)>>
        run_time == <<Pad2(HourOf(start_at)) \o ":" \o Pad2(MinuteOf(start_at))>>
        daycode == <<weekday_map[Weekday(start_at) + 1]>>
    IN  IF recurring
        THEN << <<"schtasks">>, <<"/Create">>, <<"/SC">>, <<"WEEKLY">>, <<"/D">>, daycode,
                <<"/TN">>, task_name, <<"/TR">>, wrapper, <<"/ST">>, run_time,
                <<"/SD">>, run_date, <<"/F">> >>
        ELSE << <<"schtasks">>, <<"/Create">>, <<"/SC">>, <<"ONCE">>,
                <<"/TN">>, task_name, <<"/TR">>, wrapper, <<"/ST">>, run_time,
                <<"/SD">>, run_date, <<"/F">> >>

\* the value of the argument that follows option `opt` in an argument list
ArgAfter(args, opt) ==
    LET i == CHOOSE i \in 1..Len(args) : args[i] = opt IN args[i + 1]
HasArg(args, opt) == \E i \in 1..(Len(args) - 1) : args[i] = opt

HasFlag(args, opt) == \E i \in 1..Len(args) : args[i] = opt

\* schtasks /Create that exits 0: with /F the task of that name is the new one;
\* without /F a task that exists is not overwritten
scheduler_create(ts, args) ==
    LET nm == ArgAfter(args, <<"/TN">>)
        t == [name |-> nm,
              sc |-> ArgAfter(args, <<"/SC">>),
              d |-> IF HasArg(args, <<"/D">>) THEN ArgAfter(args, <<"/D">>) ELSE <<>>,
              tr |-> ArgAfter(args, <<"/TR">>),
              st |-> ArgAfter(args, <<"/ST">>),
              sd |-> ArgAfter(args, <<"/SD">>)]
    IN  IF (\E x \in ts : x.name = nm) /\ ~HasFlag(args, <<"/F">>)
        THEN ts
        ELSE {x \in ts : x.name # nm} \cup {t}

\* open(script, "w"): the script of that path holds the new command line
write_file(ws, w) == {x \in ws : x.script # w.script} \cup {w}

\* the part of _schedule_task before the start is resolved (lines 953-971):
\* the run's record when it returns early, k = "resolved" when it goes on
resolve(recurring, now1, now2) ==
    LET r0 == [NoLast EXCEPT !.recurring = recurring, !.now1 = now1, !.now2 = now2,
                             !.day_in = day_var, !.tm_in = time_var]
        pw == parse_when(day_var, time_var, now1)
        pd == IF dur_var.k = "empty" THEN [err |-> FALSE, v |-> DefaultDuration]
              ELSE parse_duration(dur_var)
        ef == ensure_future_start(pw.at, now2, day_var, time_var)
    IN  IF ffmpeg_path = <<>> THEN [r0 EXCEPT !.k = "noffmpeg"]
        ELSE IF channel = NoChannel THEN [r0 EXCEPT !.k = "nochannel"]
        ELSE IF pw.err # "" THEN [r0 EXCEPT !.k = "badtime"]
        ELSE IF pd.err THEN [r0 EXCEPT !.k = "baddur", !.parsed = pw.at]
        ELSE IF ~ef.ok THEN [r0 EXCEPT !.k = "past", !.parsed = pw.at,
                                       !.req_dur = pd.v, !.notice = ef.notice]
        ELSE [r0 EXCEPT !.k = "resolved", !.parsed = pw.at, !.req_dur = pd.v,
                        !.nominal = ef.at, !.notice = ef.notice]

\* mutant of build_job: the trigger is the start before the buffer
build_job_weekday_of_nominal(r) ==
    LET b1 == apply_start_buffer(r.nominal, r.req_dur, buf_start_var, buf_start_min)
        b2 == apply_end_buffer(b1.start_at, b1.dur_s, buf_end_var, buf_end_min)
        base0 == IF filename_var # <<>> THEN filename_var
                 ELSE auto_filename(channel.name, b2.start_at)
        base_name == IF EndsWithMp4(base0) THEN base0 ELSE base0 \o <<".", "mp4">>
        out_path == OUT_DIR \o <<"\\">> \o base_name
        cmd == build_ffmpeg_cmd(ffmpeg_path, channel.url, out_path, b2.dur_s,
                                QUALITY_OPTS[quality_var], crash_safe_var)
        task_name == task_name_of(base_name)
        wrapper == write_task_wrapper(cmd, task_name)
    IN  [rec |-> [r EXCEPT !.start_at = b2.start_at, !.dur_s = b2.dur_s,
                           !.m = IF buf_start_var THEN Max(0, buf_start_min) ELSE 0,
                           !.n = IF buf_end_var THEN Max(0, buf_end_min) ELSE 0,
                           !.task_name = task_name, !.out_path = out_path,
                           !.issued = TRUE],
         wrapper |-> wrapper,
         sch |-> create_args(r.recurring, task_name, wrapper.script, r.nominal)]

\* the rest of _schedule_task before the scheduler is called (lines 972-993):
\* buffers, names, command, wrapper script and the schtasks arguments
build_job(r) ==
    LET b1 == apply_start_buffer(r.nominal, r.req_dur, buf_start_var, buf_start_min)
        b2 == apply_end_buffer(b1.start_at, b1.dur_s, buf_end_var, buf_end_min)
        base0 == IF filename_var # <<>> THEN filename_var
                 ELSE auto_filename(channel.name, b2.start_at)
        base_name == IF EndsWithMp4(base0) THEN base0 ELSE base0 \o <<".", "mp4">>
        out_path == OUT_DIR \o <<"\\">> \o base_name
        cmd == build_ffmpeg_cmd(ffmpeg_path, channel.url, out_path, b2.dur_s,
                                QUALITY_OPTS[quality_var], crash_safe_var)
        task_name == task_name_of(base_name)
        wrapper == write_task_wrapper(cmd, task_name)
    IN  [rec |-> [r EXCEPT !.start_at = b2.start_at, !.dur_s = b2.dur_s,
                           !.m = IF buf_start_var THEN Max(0, buf_start_min) ELSE 0,
                           !.n = IF buf_end_var THEN Max(0, buf_end_min) ELSE 0,
                           !.task_name = task_name, !.out_path = out_path,
                           !.issued = TRUE],
         wrapper |-> wrapper,
         sch |-> create_args(r.recurring, task_name, wrapper.script, b2.start_at)]

ScheduleTask(recurring) ==
    /\ nRuns < MaxRuns
    /\ nRuns' = nRuns + 1
    /\ \E lag \in Lags :
       /\ clock' = clock + lag
       /\ \E r \in {resolve(recurring, clock, clock + lag)} :
          IF r.k # "resolved"
          THEN /\ last' = r
               /\ UNCHANGED <<formVars, tasks, wrappers, nCreate>>
          ELSE \E j \in {build_job(r)},
                  ef \in {ensure_future_start(r.parsed, r.now2, day_var, time_var)},
                  run \in {run_schtasks(o) : o \in RunOutcomes} :
               \E rc \in {run.rc} :
                  /\ day_var' = ef.day
                  /\ time_var' = ef.tm
                  /\ wrappers' = write_file(wrappers, j.wrapper)
                  /\ nCreate' = nCreate + run.calls
                  /\ tasks' = IF rc = 0 THEN scheduler_create(tasks, j.sch) ELSE tasks
                  /\ last' = [j.rec EXCEPT !.k = IF rc = 0 THEN "created" ELSE "createfailed",
                                           !.ok = (rc = 0), !.rc = rc,
                                           !.existed = \E t \in tasks :
                                                          t.name = j.rec.task_name]
                  /\ UNCHANGED <<dur_var, buf_start_var, buf_start_min, buf_end_var,
                                 buf_end_min, filename_var, quality_var,
                                 crash_safe_var, ffmpeg_path, channel>>

\* arm_record: the one-time button
ArmRecord == ScheduleTask(FALSE)
\* schedule_task_async(recurring=True): the weekly button
ScheduleWeekly == ScheduleTask(TRUE)

NextSched == ArmRecord \/ ScheduleWeekly

\* ------------------------------------------------ the form between two runs
\* what the user types into the File name entry: nothing, two names that differ
\* in one character, and a name that looks like the name of a series recording
SeriesLikeFile == <<"MyShow", "_", "20240101", "_", "2000">>
FileNames == {<<>>, <<"a", " ", "b">>, <<"a", "_", "b">>, <<"SERIES", "_">> \o SeriesLikeFile}

\* the File name entry (line 506) is edited
EditFilename ==
    /\ \E f \in FileNames \ {filename_var} : filename_var' = f
    /\ UNCHANGED <<clock, day_var, time_var, dur_var, buf_start_var, buf_start_min,
                   buf_end_var, buf_end_min, quality_var, crash_safe_var, ffmpeg_path,
                   channel, tasks, wrappers, nCreate, nRuns, last>>

\* the Crash-safe MP4 box (line 511) is ticked or cleared
ToggleCrashSafe ==
    /\ crash_safe_var' = ~crash_safe_var
    /\ UNCHANGED <<clock, day_var, time_var, dur_var, buf_start_var, buf_start_min,
                   buf_end_var, buf_end_min, quality_var, filename_var, ffmpeg_path,
                   channel, tasks, wrappers, nCreate, nRuns, last>>

NextForm == EditFilename \/ ToggleCrashSafe

\* =================================================== WaitRecordLive
\* bounds of the session model
\* the latest start_at of a session, in seconds after its construction
MaxStart == 1
\* operator requests (stop, abort, close) on one session
MaxWorkers == 2

VARIABLES
    self,      \* the session object: [start_at, stop, proc]; proc "None" or "Popen"
    pc_run,    \* where WaitRecordLive._run is
    exit_via,  \* how _run returned: "" | "cancelled" | "failed" | "finished"
    engine,    \* the capture process: [state, opened, detached, signalled]
    pipe,      \* the engine's output: "empty", or "line" when a line is unread
    outfile,   \* what self.out holds on disk
    fixedfile, \* what self.out + ".fixed.mp4" holds on disk
    workers,   \* the finisher and killer threads that were started: a bag
    hist       \* what has happened to the session so far

sessVars == <<self, pc_run, exit_via, engine, pipe, outfile, fixedfile, workers, hist>>

NewWorker(kind) ==
    [kind |-> kind, pc |-> "check", saw_running |-> FALSE, timed_out |-> FALSE,
     finalize |-> FALSE, remux |-> "none", replaced |-> FALSE, remove |-> "none"]
Workers == BagToSet(workers)
\* pc values of _run at which the stop check of line 1303 is still ahead
BeforeStopCheck == {"begin", "w_test", "w_now", "chk"}
NoEngine == [state |-> "none", opened |-> FALSE, detached |-> FALSE, signalled |-> FALSE]
NoHist == [launches |-> 0, req_early |-> FALSE, req_waiting |-> FALSE]

\* the state after __init__: the constructor takes any start_at (start_now hands it
\* the wall clock's reading, which the reading taken in _run need not have reached)
InitSess ==
    /\ self \in [start_at : clock..(clock + MaxStart), stop : {FALSE}, proc : {"None"}]
    /\ pc_run = "begin"
    /\ exit_via = ""
    /\ engine = NoEngine
    /\ pipe = "empty"
    /\ outfile = "absent"
    /\ fixedfile = "absent"
    /\ workers = EmptyBag
    /\ hist = NoHist

\* ------------------------------------------------ the clock and the engine
\* the clock matters to a session until its start_at is reached
Tick ==
    /\ clock < self.start_at
    /\ clock' = clock + 1
    /\ UNCHANGED <<schedVars, sessVars>>

\* the engine opens (creates or truncates) its output file
EngineOpenOutput ==
    /\ engine.state = "running" /\ ~engine.opened
    /\ engine' = [engine EXCEPT !.opened = TRUE]
    /\ outfile' = "partial"
    /\ UNCHANGED <<clock, schedVars, self, pc_run, exit_via, pipe, fixedfile, workers, hist>>

\* the engine prints a progress line
EngineEmit ==
    /\ engine.state = "running" /\ pipe = "empty"
    /\ pipe' = "line"
    /\ UNCHANGED <<clock, schedVars, self, pc_run, exit_via, engine, outfile, fixedfile,
                   workers, hist>>

\* the engine exits: its duration has elapsed, it failed, or it obeys a terminate();
\* a file it still holds is complete when it could write the trailer
EngineExit ==
    /\ engine.state = "running"
    /\ engine' = [engine EXCEPT !.state = "exited"]
    /\ \E trailer \in BOOLEAN :
          outfile' = IF engine.opened /\ ~engine.detached /\ trailer
                     THEN "complete" ELSE outfile
    /\ UNCHANGED <<clock, schedVars, self, pc_run, exit_via, pipe, fixedfile, workers, hist>>

\* Popen.terminate(): a signal to a running process, nothing to one that exited
terminate(e) == IF e.state = "running" THEN [e EXCEPT !.signalled = TRUE] ELSE e

\* ------------------------------------------------ WaitRecordLive._run
\* line 1293: wait only when start_at is still ahead
begin_next(start_at, now) == IF start_at > now THEN "w_test" ELSE "chk"
\* line 1295: while not self.stop
wait_test(stop) == IF stop THEN "chk" ELSE "w_now"
\* mutant of wait_now: the wait gives up at once
wait_now_gives_up(start_at, now) == "returned"

\* mutant of wait_now: the wait ends a second before start_at
wait_now_a_second_early(start_at, now) == IF start_at - now <= 1 THEN "chk" ELSE "w_test"

\* lines 1296-1302: remain = start_at - now; if remain <= 0: break; else sleep
wait_now(start_at, now) == IF start_at - now <= 0 THEN "chk" ELSE "w_test"
\* mutant of stop_check: the flag is not looked at after the wait
stop_check_ignores_stop(stop) == "launch"

\* line 1303: if self.stop: return
stop_check(stop) == IF stop THEN "returned" ELSE "launch"
\* mutant of loop_check: a stop restarts the capture
loop_check_relaunches(stop) == IF stop THEN "launch" ELSE "read"

\* line 1316: if self.stop: terminate, break
loop_check(stop) == IF stop THEN "drain" ELSE "read"

RunStep(to) ==
    /\ pc_run' = to
    /\ UNCHANGED <<clock, schedVars, self, exit_via, engine, pipe, outfile, fixedfile,
                   workers, hist>>

RunBegin == pc_run = "begin" /\ RunStep(begin_next(self.start_at, clock))
WaitTest == pc_run = "w_test" /\ RunStep(wait_test(self.stop))
WaitNow == pc_run = "w_now" /\ RunStep(wait_now(self.start_at, clock))

StopCheck ==
    /\ pc_run = "chk"
    /\ pc_run' = stop_check(self.stop)
    /\ exit_via' = IF pc_run' = "returned" THEN "cancelled" ELSE exit_via
    /\ UNCHANGED <<clock, schedVars, self, engine, pipe, outfile, fixedfile, workers, hist>>

\* lines 1305-1313: Popen starts the engine, or raises
Launch ==
    /\ pc_run = "launch"
    /\ \E started \in BOOLEAN :
          IF started
          THEN /\ self' = [self EXCEPT !.proc = "Popen"]
               /\ engine' = [engine EXCEPT !.state = "running"]
               /\ hist' = [hist EXCEPT !.launches = @ + 1]
               /\ pc_run' = "loop"
               /\ UNCHANGED exit_via
          ELSE /\ pc_run' = "returned"
               /\ exit_via' = "failed"
               /\ UNCHANGED <<self, engine, hist>>
    /\ UNCHANGED <<clock, schedVars, pipe, outfile, fixedfile, workers>>

\* lines 1316-1319
LoopCheck ==
    /\ pc_run = "loop"
    /\ pc_run' = loop_check(self.stop)
    /\ engine' = IF self.stop THEN terminate(engine) ELSE engine
    /\ UNCHANGED <<clock, schedVars, self, exit_via, pipe, outfile, fixedfile, workers, hist>>

\* lines 1320-1336: readline returns a line, or "" at the end of the output
ReadLine ==
    /\ pc_run = "read"
    /\ \/ pipe = "line" /\ pipe' = "empty" /\ pc_run' = "loop"
       \/ pipe = "empty" /\ engine.state = "exited" /\ pipe' = pipe /\ pc_run' = "drain"
    /\ UNCHANGED <<clock, schedVars, self, exit_via, engine, outfile, fixedfile, workers, hist>>

\* lines 1338-1353: stdout.read() returns when the engine has closed its output
Drain ==
    /\ pc_run = "drain"
    /\ engine.state = "exited"
    /\ pipe' = "empty"
    /\ pc_run' = "returned"
    /\ exit_via' = "finished"
    /\ UNCHANGED <<clock, schedVars, self, engine, outfile, fixedfile, workers, hist>>

\* ------------------------------------- stop_keep, abort_delete, on_close_window
\* the operator confirms: the flag is set and a worker thread is started
Request(kind) ==
    /\ BagCardinality(workers) < MaxWorkers
    /\ self' = [self EXCEPT !.stop = TRUE]
    /\ workers' = workers (+) SetToBag({NewWorker(kind)})
    /\ hist' = [hist EXCEPT
          !.req_early = @ \/ pc_run \in BeforeStopCheck,
          !.req_waiting = @ \/ (pc_run \in BeforeStopCheck /\ clock < self.start_at)]
    /\ UNCHANGED <<clock, schedVars, pc_run, exit_via, engine, pipe, outfile, fixedfile>>

StopKeep == Request("finisher")
AbortDelete == Request("killer")
OnCloseWindow == Request("finisher")

\* ------------------------------------------------ finisher and killer
\* worker w goes on as r
SetWorker(w, r) == workers' = (workers (-) SetToBag({w})) (+) SetToBag({r})

\* where a worker goes once the process is no concern: finalize_recording, or the delete
after_process(kind) == IF kind = "finisher" THEN "fz_run" ELSE "k_delete"
\* mutant of worker_check: self.proc is not tested
worker_check_ignores_proc(kind, proc, state) == "wait"

\* lines 1362, 1376: if self.proc and self.proc.poll() is None
worker_check(kind, proc, state) ==
    IF proc = "Popen" /\ state = "running" THEN "wait" ELSE after_process(kind)
\* lines 1364-1367, 1378-1380: proc.wait(timeout=10) raised TimeoutExpired
after_timeout(kind) == IF kind = "finisher" THEN "done" ELSE "k_delete"

\* lines 1362-1363, 1376-1377: the check, and terminate() when it finds the process
WorkerCheck(w) ==
    /\ w.pc = "check"
    /\ \E to \in {worker_check(w.kind, self.proc, engine.state)} :
          /\ SetWorker(w, [w EXCEPT !.pc = to, !.saw_running = (to = "wait")])
          /\ engine' = IF to = "wait" THEN terminate(engine) ELSE engine
    /\ UNCHANGED <<clock, schedVars, self, pc_run, exit_via, pipe, outfile, fixedfile, hist>>

\* proc.wait(timeout=10): the process has exited, or the ten seconds have passed
WorkerWait(w) ==
    /\ w.pc = "wait"
    /\ IF engine.state = "exited"
       THEN SetWorker(w, [w EXCEPT !.pc = after_process(w.kind)])
       ELSE SetWorker(w, [w EXCEPT !.pc = after_timeout(w.kind), !.timed_out = TRUE])
    /\ UNCHANGED <<clock, schedVars, self, pc_run, exit_via, engine, pipe, outfile,
                   fixedfile, hist>>

\* ------------------------------------------------ finalize_recording
\* what the remux (subprocess.run, check=False, timeout=30) can do
RemuxOutcomes == {"ok", "err_none", "err_partial", "timeout", "exc"}
\* the outcomes in which the engine left (part of) a .fixed.mp4 behind
remux_output(outcome, fixed) ==
    CASE outcome = "ok" -> "complete"
      [] outcome \in {"err_partial", "timeout"} -> "partial"
      [] OTHER -> fixed
\* subprocess.run returns for every exit code, and raises on a timeout or a failed start
remux_next(outcome) == IF outcome \in {"timeout", "exc"} THEN "done" ELSE "fz_replace"
\* line 313: if os.path.exists(fixed_path)
should_replace(fixed) == fixed # "absent"
\* what the output file holds after os.replace(fixed_path, file_path)
replaced_content(fixed) == IF fixed = "complete" THEN "remuxed" ELSE "broken"
\* a file the running engine holds open is no longer the file of that path
detach(e) == IF e.state = "running" /\ e.opened THEN [e EXCEPT !.detached = TRUE] ELSE e

\* lines 307-312: return when the file is not there, else run the remux; a remux
\* writes output only if it can read the file
FinalizeRemux(w) ==
    /\ w.pc = "fz_run"
    /\ IF outfile = "absent"
       THEN /\ SetWorker(w, [w EXCEPT !.pc = "done", !.finalize = TRUE])
            /\ UNCHANGED fixedfile
       ELSE \E outcome \in RemuxOutcomes :
               /\ fixedfile' = remux_output(outcome, fixedfile)
               /\ SetWorker(w, [w EXCEPT !.pc = remux_next(outcome), !.finalize = TRUE,
                                         !.remux = IF outcome = "ok" THEN "ok" ELSE "failed"])
    /\ UNCHANGED <<clock, schedVars, self, pc_run, exit_via, engine, pipe, outfile, hist>>

\* lines 313-316: os.replace succeeds, or raises (swallowed)
FinalizeReplace(w) ==
    /\ w.pc = "fz_replace"
    /\ \E replace_ok \in BOOLEAN :
          IF should_replace(fixedfile) /\ replace_ok
          THEN /\ outfile' = replaced_content(fixedfile)
               /\ fixedfile' = "absent"
               /\ engine' = detach(engine)
               /\ SetWorker(w, [w EXCEPT !.pc = "done", !.replaced = TRUE])
          ELSE /\ SetWorker(w, [w EXCEPT !.pc = "done"])
               /\ UNCHANGED <<outfile, fixedfile, engine>>
    /\ UNCHANGED <<clock, schedVars, self, pc_run, exit_via, pipe, hist>>

\* ------------------------------------------------ the killer's delete
\* lines 1381-1385: if the file exists, os.remove succeeds, or raises (swallowed)
KillerDelete(w) ==
    /\ w.pc = "k_delete"
    /\ IF outfile = "absent"
       THEN /\ SetWorker(w, [w EXCEPT !.pc = "done"])
            /\ UNCHANGED <<outfile, engine>>
       ELSE \E remove_ok \in BOOLEAN :
               IF remove_ok
               THEN /\ outfile' = "absent"
                    /\ engine' = detach(engine)
                    /\ SetWorker(w, [w EXCEPT !.pc = "done", !.remove = "ok"])
               ELSE /\ SetWorker(w, [w EXCEPT !.pc = "done", !.remove = "failed"])
                    /\ UNCHANGED <<outfile, engine>>
    /\ UNCHANGED <<clock, schedVars, self, pc_run, exit_via, pipe, fixedfile, hist>>

WorkerStep ==
    \E w \in Workers :
        \/ WorkerCheck(w)
        \/ WorkerWait(w)
        \/ FinalizeRemux(w)
        \/ FinalizeReplace(w)
        \/ KillerDelete(w)

NextSess ==
    \/ Tick
    \/ EngineOpenOutput \/ EngineEmit \/ EngineExit
    \/ RunBegin \/ WaitTest \/ WaitNow \/ StopCheck \/ Launch
    \/ LoopCheck \/ ReadLine \/ Drain
    \/ StopKeep \/ AbortDelete \/ OnCloseWindow
    \/ WorkerStep

\* =================================================== the Scheduled Tasks tab
\* ------------------------------------------------ text of the listing
\* the tokens of the names in a listing, in code point order (digits, upper case
\* letters, "_", lower case letters): the order Python's sort has on the names
TokenOrder ==
    <<"1", "20-00", "2000", "20240101", "20240108", "203000", "Backup", "DVR", "IPTV",
      "MyShow", "Other", "SERIES", "TV", "_", "a", "b", "d0", "d1", "d2", "d3", "mp4", "old">>
TokenRank(tok) == CHOOSE i \in 1..Len(TokenOrder) : TokenOrder[i] = tok

\* a < b for two texts
RECURSIVE StrLess(_, _)
StrLess(a, b) ==
    IF b = <<>> THEN FALSE
    ELSE IF a = <<>> THEN TRUE
    ELSE IF Head(a) = Head(b) THEN StrLess(Tail(a), Tail(b))
    ELSE TokenRank(Head(a)) < TokenRank(Head(b))

\* str.strip()
RECURSIVE Strip(_)
Strip(s) ==
    IF s = <<>> THEN s
    ELSE IF Head(s) = " " THEN Strip(Tail(s))
    ELSE IF s[Len(s)] = " " THEN Strip(SubSeq(s, 1, Len(s) - 1))
    ELSE s

\* sub in s
Contains(s, sub) == \E i \in 0..(Len(s) - Len(sub)) : SubSeq(s, i + 1, i + Len(sub)) = sub
\* s.startswith(pre)
StartsWith(s, pre) == Len(s) >= Len(pre) /\ SubSeq(s, 1, Len(pre)) = pre

\* the text a task name is tested for (line 1026)
SYSTEM_TAG == <<"IPTV", "_", "DVR">>
\* what SERIES_RE asks a name to begin with
SERIES_TAG == <<"IPTV", "_", "DVR", "_", "SERIES", "_">>
\* the tokens \d{8} and \d{4,6} match
Digits8 == {"20240101", "20240108"}
Digits4to6 == {"2000", "203000"}

\* ------------------------------------------------ parse_schtasks_csv
\* the value of column h in row r: the last column of that header
Column(headers, r, h) ==
    IF \E i \in 1..Len(headers) : headers[i] = h
    THEN r[CHOOSE i \in 1..Len(headers) :
              headers[i] = h /\ \A j \in (i + 1)..Len(headers) : headers[j] # h]
    ELSE <<>>

\* parse_schtasks_csv on the rows csv_reader yields: the rows as wide as the
\* header row, each with the stripped headers
parse_schtasks_csv(rdr) ==
    IF rdr = <<>> THEN <<>>
    ELSE LET headers == [j \in 1..Len(rdr[1]) |-> Strip(rdr[1][j])]
             body == SelectSeq(Tail(rdr), LAMBDA r : Len(r) = Len(headers))
         IN  [i \in 1..Len(body) |-> [headers |-> headers, r |-> body[i]]]

\* ------------------------------------------------ App._query_tasks
\* the tuple _query_tasks keeps of a row
TaskTuple(row) ==
    [name |-> Strip(Column(row.headers, row.r, <<"TaskName">>)),
     next_run |-> Strip(Column(row.headers, row.r, <<"Next Run Time">>)),
     schedule |-> Strip(Column(row.headers, row.r, <<"Schedule">>)),
     status |-> Strip(Column(row.headers, row.r, <<"Status">>))]

\* lines 1025-1026: if not name: continue; if "IPTV_DVR" in name
IsOurs(name) == name # <<>> /\ Contains(name, SYSTEM_TAG)

\* list.sort() of tuples whose names differ: ascending names
RECURSIVE SortByName(_)
SortByName(ts) ==
    IF ts = <<>> THEN <<>>
    ELSE LET x == Head(ts)
             rest == Tail(ts)
         IN  SortByName(SelectSeq(rest, LAMBDA y : StrLess(y.name, x.name)))
             \o <<x>>
             \o SortByName(SelectSeq(rest, LAMBDA y : ~StrLess(y.name, x.name)))

\* _query_tasks after a /Query that exited 0
query_tasks(rdr) ==
    LET rows == parse_schtasks_csv(rdr)
        tuples == [i \in 1..Len(rows) |-> TaskTuple(rows[i])]
    IN  SortByName(SelectSeq(tuples, LAMBDA t : IsOurs(t.name)))

\* ------------------------------------------------ App._series_group_key
\* mutant of series_group_key: the date and time stay in the key
series_group_key_keeps_suffix(task_name) ==
    IF StartsWith(task_name, SERIES_TAG) THEN task_name ELSE <<>>

\* SERIES_RE.match: ^(IPTV_DVR_SERIES_.+?)_\d{8}_\d{4,6}$, group 1 or <<>> for None
series_group_key(task_name) ==
    LET n == Len(task_name)
    IN  IF /\ n >= Len(SERIES_TAG) + 5
           /\ StartsWith(task_name, SERIES_TAG)
           /\ task_name[n] \in Digits4to6
           /\ task_name[n - 1] = "_"
           /\ task_name[n - 2] \in Digits8
           /\ task_name[n - 3] = "_"
        THEN SubSeq(task_name, 1, n - 4)
        ELSE <<>>

\* ------------------------------------------------ App._get_task_details
\* the tokens (\d+) matches: the durations of the model are whole minutes
DurationTokens == {ToString(n * SecPerMin) : n \in 0..(48 * 60)}

\* the task definition of a task registered with /TR <script>: the script is the
\* command to run, and there are no arguments
task_command(t) == [command |-> t.tr, arguments |-> <<>>]
\* line 1073: full_command = f'"{command}" {arguments}'
full_command(t) ==
    <<"\"">> \o task_command(t).command \o <<"\"", " ">> \o task_command(t).arguments

\* re.search(r'-i\s+"([^"]+)"\s+-t\s+(\d+)\s+.*"([^"]+)"', full): the leftmost
\* match, .* taking as much as it can
search_details(full) ==
    LET n == Len(full)
        quote(k) == full[k] = "\""
        \* the quote that closes group 1 when it opens after position i + 2
        close1(i) == {j \in (i + 4)..(n - 5) :
                         /\ quote(j) /\ \A k \in (i + 3)..(j - 1) : ~quote(k)
                         /\ full[j + 1] = " " /\ full[j + 2] = "-t" /\ full[j + 3] = " "
                         /\ full[j + 4] \in DurationTokens /\ full[j + 5] = " "}
        \* the quotes that can open group 3 after position j + 5
        open3(j) == {q \in (j + 6)..(n - 2) :
                        /\ quote(q) /\ ~quote(q + 1)
                        /\ \E e \in (q + 2)..n : quote(e)}
        starts == {i \in 1..(n - 2) :
                      /\ full[i] = "-i" /\ full[i + 1] = " " /\ quote(i + 2)
                      /\ \E j \in close1(i) : open3(j) # {}}
    IN  IF starts = {} THEN [found |-> FALSE, g1 |-> <<>>, g2 |-> "", g3 |-> <<>>]
        ELSE LET i == CHOOSE x \in starts : \A y \in starts : x <= y
                 j == CHOOSE x \in close1(i) : TRUE
                 q == CHOOSE x \in open3(j) : \A y \in open3(j) : y <= x
                 e == CHOOSE x \in (q + 2)..n : quote(x) /\ \A k \in (q + 1)..(x - 1) : ~quote(k)
             IN  [found |-> TRUE, g1 |-> SubSeq(full, i + 3, j - 1), g2 |-> full[j + 4],
                  g3 |-> SubSeq(full, q + 1, e - 1)]

\* _get_task_details after a /Query /TN /XML that exited 0
get_task_details(t) ==
    LET m == search_details(full_command(t))
    IN  [ok |-> m.found, stream_url |-> m.g1, duration_s |-> m.g2, output_path |-> m.g3]

\* ------------------------------------------------ the tab's state
\* names selected at once for a delete
MaxBatch == 3

VARIABLES
    listing,      \* the rows of the latest /Query /FO CSV output, header row first
    tasks_index,  \* self.tasks_index: the tuples of the tasks list, in its order
    series_info,  \* the series list: [key, members, error]
    answer        \* what the latest query, details or delete worker returned

tabVars == <<listing, tasks_index, series_info, answer>>
createVars == <<formVars, wrappers, nCreate, nRuns, last>>

\* calls of build_ffmpeg_cmd, one after the other
VARIABLES
    quality_opts, \* the QUALITY_OPTS dict of the module as the calls so far left it
    calls         \* the calls made so far: their arguments and the list returned

buildVars == <<quality_opts, calls>>

\* the read loop of a session and the statistics it shows
VARIABLES
    live          \* [dur_s, elapsed, pct, stats_line, line, step, loop, running]

progVars == <<live>>
\* the session windows that start_now opened, and the files at their output paths
VARIABLES
    sessions,   \* per window: [out, stop, proc, engine, run, worker, kind]
    disk        \* per output path: [content, writer], writer the session whose
                \* engine has the file open, 0 for none
pairVars == <<sessions, disk>>
vars == <<clock, schedVars, sessVars, tabVars, buildVars, progVars, pairVars>>

\* series_info: the key of the selected name, the names line 1093 selects for it,
\* the lines the list shows, and whether the handler raised
NoSeries == [key |-> <<>>, matches |-> <<>>, members |-> <<>>, error |-> FALSE]
NoAnswer ==
    [op |-> "none", ok |-> FALSE, rc |-> 0, name |-> <<>>,
     stream_url |-> <<>>, duration_s |-> "", output_path |-> <<>>,
     names |-> <<>>, successes |-> 0, failures |-> <<>>, calls |-> 0]
NoTab ==
    /\ listing = <<>>
    /\ tasks_index = <<>>
    /\ series_info = NoSeries
    /\ answer = NoAnswer

\* tasks the scheduler holds besides the one this program just created: two
\* recordings of a series, a third whose row of the listing comes out one column
\* long, a series-tagged name without the time, and two tasks of other origin, one
\* with a row that comes out one column short
OldTask(name, sc, d) ==
    [name |-> name, sc |-> sc, d |-> d, tr |-> name \o <<".", "cmd">>,
     st |-> <<"20:00">>, sd |-> <<"d0">>]
LongRowName == SERIES_TAG \o <<"MyShow", "_", "20240108", "_", "2000">>
ShortRowName == <<"Other", "_", "IPTV", "_", "DVR">>
PreExisting ==
    {OldTask(SERIES_TAG \o <<"MyShow", "_", "20240101", "_", "2000">>, <<"ONCE">>, <<>>),
     OldTask(SERIES_TAG \o <<"MyShow", "_", "20240108", "_", "203000">>, <<"ONCE">>, <<>>),
     OldTask(LongRowName, <<"ONCE">>, <<>>),
     OldTask(SERIES_TAG \o <<"MyShow", "_", "20240101">>, <<"ONCE">>, <<>>),
     OldTask(<<"Backup", "_", "IPTV", "_", "DVR", "_", "old">>, <<"WEEKLY">>, <<"MON">>),
     OldTask(ShortRowName, <<"WEEKLY">>, <<"MON">>),
     OldTask(<<"Other">>, <<"WEEKLY">>, <<"MON">>)}

\* ------------------------------------------------ schtasks /Query /FO CSV /V
Header == << <<"TaskName">>, <<"Next Run Time">>, <<"Status">>, <<"Schedule">> >>
\* the row csv_reader yields for a task
row_of(t) ==
    LET r == << t.name, t.sd \o <<" ">> \o t.st, <<"Ready">>, t.sc >>
    IN  CASE t.name = ShortRowName -> SubSeq(r, 1, Len(r) - 1)
          [] t.name = LongRowName -> Append(r, <<"x">>)
          [] OTHER -> r
\* the scheduler lists its tasks in an order of its own: here descending names
RECURSIVE ListOrder(_)
ListOrder(ts) ==
    IF ts = {} THEN <<>>
    ELSE LET x == CHOOSE t \in ts : \A u \in ts \ {t} : StrLess(u.name, t.name)
         IN  <<x>> \o ListOrder(ts \ {x})
\* the rows of the output, header row first
listing_of(ts) ==
    LET o == ListOrder(ts) IN <<Header>> \o [i \in 1..Len(o) |-> row_of(o[i])]

\* ------------------------------------------------ refresh_tasks_async
\* output of a /Query that exited 0 which is not the table: the rows csv_reader
\* yields for two lines of other text
Garbled == << << <<"INFO", ":", " ", "x">> >>, << <<"x">> >> >>

\* _query_tasks and _show_tasks for a /Query that exited rc with output rdr
Refresh(rc, rdr) ==
    /\ series_info' = NoSeries
    /\ IF rc # 0 THEN listing' = <<>> /\ tasks_index' = <<>>
       ELSE /\ listing' = rdr
            /\ tasks_index' = query_tasks(rdr)

QueryTasks ==
    /\ \E run \in {run_schtasks(o) : o \in {Exited(0), Exited(1), TimedOut}} :
       \E rc \in {run.rc} :
       \E rdr \in (IF rc = 0 THEN {listing_of(tasks), Garbled} ELSE {<<>>}) :
          /\ Refresh(rc, rdr)
          /\ answer' = [NoAnswer EXCEPT !.op = "query", !.ok = (rc = 0), !.rc = rc,
                                        !.calls = run.calls]
    /\ UNCHANGED <<clock, createVars, tasks, sessVars>>

\* ------------------------------------------------ on_task_select
\* lines 1087-1099 for one selected name: line 1095 reads self.SERIES_PREFIX,
\* an attribute nothing defines, so the handler raises once there are matches
on_task_select(name, index) ==
    LET base == series_group_key(name)
        matches == SelectSeq(index, LAMBDA t : StartsWith(t.name, base \o <<"_">>))
    IN  IF base = <<>> \/ matches = <<>> THEN [NoSeries EXCEPT !.key = base]
        ELSE [key |-> base, matches |-> [i \in 1..Len(matches) |-> matches[i].name],
              members |-> <<>>, error |-> TRUE]

OnTaskSelect ==
    /\ \E i \in 1..Len(tasks_index) :
          series_info' = on_task_select(tasks_index[i].name, tasks_index)
    /\ UNCHANGED <<clock, schedVars, sessVars, listing, tasks_index, answer>>

\* ------------------------------------------------ on_task_double_click
\* _get_task_details for the name of a line of the list; the query of a task the
\* scheduler does not hold exits 1
GetTaskDetails ==
    /\ \E i \in 1..Len(tasks_index),
          run \in {run_schtasks(o) : o \in {Exited(0), Exited(1), TimedOut}} :
          LET nm == tasks_index[i].name
              held == \E t \in tasks : t.name = nm
              rc == run.rc
          IN  /\ (rc = 0) => held
              /\ answer' =
                    IF rc # 0 THEN [NoAnswer EXCEPT !.op = "details", !.rc = rc, !.name = nm,
                                                    !.calls = run.calls]
                    ELSE LET d == get_task_details(CHOOSE t \in tasks : t.name = nm)
                         IN  [NoAnswer EXCEPT !.op = "details", !.name = nm, !.ok = d.ok,
                                              !.calls = run.calls,
                                              !.stream_url = d.stream_url,
                                              !.duration_s = d.duration_s,
                                              !.output_path = d.output_path]
    /\ UNCHANGED <<clock, schedVars, sessVars, listing, tasks_index, series_info>>

\* ------------------------------------------------ WaitRecord.start_now
\* line 1211: the arguments the session is constructed with, from the details the
\* view was opened with
start_now(task_details) ==
    [ffmpeg |-> ffmpeg_path, stream |-> task_details.stream_url,
     out_file |-> task_details.output_path, dur_s |-> task_details.duration_s,
     qopt |-> QUALITY_OPTS["High"], crash_safe |-> crash_safe_var]
\* line 1305: the invocation the session launches
session_cmd(s) ==
    build_ffmpeg_cmd(s.ffmpeg, s.stream, s.out_file, s.dur_s, s.qopt, s.crash_safe)

\* ------------------------------------------------ cancel_task_async
\* mutant of delete_tasks_batch: the loop ends at the first delete that fails
delete_tasks_batch_stops(names, rcs) ==
    LET F[k \in 0..Len(names)] ==
            IF k = 0 THEN [successes |-> 0, failures |-> <<>>]
            ELSE IF Len(F[k - 1].failures) > 0 THEN F[k - 1]
            ELSE IF rcs[k] = 0
                 THEN [F[k - 1] EXCEPT !.successes = @ + 1]
                 ELSE [F[k - 1] EXCEPT
                          !.failures = Append(@, [name |-> names[k], rc |-> rcs[k]])]
    IN  [ok |-> Len(F[Len(names)].failures) = 0,
         successes |-> F[Len(names)].successes,
         failures |-> F[Len(names)].failures]

\* _delete_tasks_batch: names in the order of the list, rcs[i] the exit code of
\* the delete of names[i]
delete_tasks_batch(names, rcs) ==
    LET F[k \in 0..Len(names)] ==
            IF k = 0 THEN [successes |-> 0, failures |-> <<>>]
            ELSE IF rcs[k] = 0
                 THEN [F[k - 1] EXCEPT !.successes = @ + 1]
                 ELSE [F[k - 1] EXCEPT
                          !.failures = Append(@, [name |-> names[k], rc |-> rcs[k]])]
    IN  [ok |-> Len(F[Len(names)].failures) = 0,
         successes |-> F[Len(names)].successes,
         failures |-> F[Len(names)].failures]

\* the invocations of schtasks a sequence of run_schtasks calls made
RECURSIVE SumCalls(_)
SumCalls(runs) == IF runs = <<>> THEN 0 ELSE Head(runs).calls + SumCalls(Tail(runs))

\* the selected lines, in the order of the list
Selections ==
    {sel \in SUBSET (1..Len(tasks_index)) : 1 <= Cardinality(sel) /\ Cardinality(sel) <= MaxBatch}
RECURSIVE SelectedNames(_, _)
SelectedNames(sel, from) ==
    IF from > Len(tasks_index) THEN <<>>
    ELSE (IF from \in sel THEN <<tasks_index[from].name>> ELSE <<>>)
         \o SelectedNames(sel, from + 1)

\* cancel_task_async, _delete_tasks_batch and _after_delete_tasks with its refresh.
\* The delete of a task the scheduler does not hold exits 1; the delete of one it
\* holds exits 0 and removes it, or fails: it is denied (1) for a task of other
\* origin, and runs into run_schtasks's timeout (124) for a task of this program
CancelTasks ==
    /\ \E sel \in Selections :
       \E names \in {SelectedNames(sel, 1)} :
       \E held \in {{k \in 1..Len(names) : \E t \in tasks : t.name = names[k]}} :
       \E late \in SUBSET held :
       \E runs \in {[k \in 1..Len(names) |->
                      run_schtasks(
                         IF k \notin held \/ (k \in late /\ ~StartsWith(names[k], SYSTEM_TAG))
                         THEN Exited(1) ELSE IF k \in late THEN TimedOut ELSE Exited(0))]} :
       \E rcs \in {[k \in 1..Len(names) |-> runs[k].rc]} :
       \E left \in {{t \in tasks : ~\E k \in held \ late : names[k] = t.name}} :
          /\ tasks' = left
          /\ \E d \in {delete_tasks_batch(names, rcs)} :
                answer' = [NoAnswer EXCEPT !.op = "delete", !.ok = d.ok, !.names = names,
                                           !.successes = d.successes, !.failures = d.failures,
                                           !.calls = SumCalls(runs)]
          /\ \E rc \in {0, 1} : Refresh(rc, listing_of(left))
    /\ UNCHANGED <<clock, createVars, sessVars>>

NextTab == QueryTasks \/ OnTaskSelect \/ GetTaskDetails \/ CancelTasks
\* the list alone: refresh and selection
NextList == QueryTasks \/ OnTaskSelect

\* ------------------------------------------------ series_record_async
\* the airings of the picked show in the guide: date %Y%m%d, time %H%M or %H%M%S
Shows == {<<"MyShow">>}
Airings == <<[date |-> "20240101", time |-> "2000"],
             [date |-> "20240108", time |-> "203000"]>>

\* mutant of series_task_name: the name ends with the date
series_task_name_without_time(show, airing) ==
    SERIES_TAG \o SubUnsafe(show, UnsafeInTaskName, FALSE) \o <<"_", airing.date>>

\* the name _series_record gives the job of one airing: the system prefix, the
\* series tag, the show, and _<YYYYMMDD>_<HHMM[SS]>
series_task_name(show, airing) ==
    SERIES_TAG \o SubUnsafe(show, UnsafeInTaskName, FALSE)
               \o <<"_", airing.date, "_", airing.time>>

\* the one-time task _series_record registers for an airing
series_task(show, airing) ==
    [name |-> series_task_name(show, airing), sc |-> <<"ONCE">>, d |-> <<>>,
     tr |-> series_task_name(show, airing) \o <<".", "cmd">>,
     st |-> <<airing.time>>, sd |-> <<airing.date>>]

\* _series_record: one create (with /F) per airing picked, in the guide's order
series_record(ts, show, picked) ==
    LET F[k \in 0..Len(Airings)] ==
            IF k = 0 THEN [tasks |-> ts, names |-> <<>>]
            ELSE IF k \notin picked THEN F[k - 1]
            ELSE LET t == series_task(show, Airings[k])
                 IN  [tasks |-> {x \in F[k - 1].tasks : x.name # t.name} \cup {t},
                      names |-> Append(F[k - 1].names, t.name)]
    IN  F[Len(Airings)]

SeriesRecord ==
    /\ \E show \in Shows, picked \in SUBSET (1..Len(Airings)) \ {{}} :
       \E r \in {series_record(tasks, show, picked)} :
          /\ tasks' = r.tasks
          /\ answer' = [NoAnswer EXCEPT !.op = "series", !.ok = TRUE, !.names = r.names,
                                        !.calls = Len(r.names)]
    /\ UNCHANGED <<clock, createVars, sessVars, listing, tasks_index, series_info>>

\* the operations that reach the scheduler from the tab
NextGateway == SeriesRecord \/ QueryTasks \/ GetTaskDetails \/ CancelTasks

\* =================================================== build_ffmpeg_cmd, call by call
\* calls followed in one run
MaxCalls == 3

\* mutant of build_call: the call writes to the dict it was handed
build_call_uses_up_bitrate(ffmpeg, stream_url, out_path, duration_s, qopt, crash_safe) ==
    [cmd |-> build_ffmpeg_cmd(ffmpeg, stream_url, out_path, duration_s, qopt, crash_safe),
     qopt |-> [qopt EXCEPT !.v_bitrate = qopt.a_bitrate]]

\* one call of build_ffmpeg_cmd: the list it returns and, since qopt is a reference
\* to an entry of QUALITY_OPTS, that entry as the call leaves it. The body assigns
\* to its locals base and mov only and reads nothing but its parameters and UA
build_call(ffmpeg, stream_url, out_path, duration_s, qopt, crash_safe) ==
    [cmd |-> build_ffmpeg_cmd(ffmpeg, stream_url, out_path, duration_s, qopt, crash_safe),
     qopt |-> qopt]

\* the arguments of the calls: dur_s of _schedule_task, out_path under out_dir
BuildDurations == {60, 4020}
BuildOutputs == {OUT_DIR \o <<"\\", "a", ".", "mp4">>}

NoBuild ==
    /\ quality_opts = QUALITY_OPTS
    /\ calls = <<>>

\* ------------------------------------------------ the read loop's lines
\* pieces of a progress line of ffmpeg: time= (absent, not HH:MM:SS, or a time),
\* fps= and bitrate=...kbits/s ("" when absent), size= (absent, or amount and unit)
NoTime == [k |-> "none", h |-> 0, m |-> 0, s |-> 0]
TimeNA == [k |-> "na", h |-> 0, m |-> 0, s |-> 0]
TimeMark(h, m, s) == [k |-> "hms", h |-> h, m |-> m, s |-> s]
NoSize == [k |-> "none", amt |-> 0, unit |-> ""]
SizeMark(amt, unit) == [k |-> "size", amt |-> amt, unit |-> unit]
Lines ==
    [time : {NoTime, TimeNA, TimeMark(0, 0, 0), TimeMark(0, 1, 5), TimeMark(1, 0, 0)},
     fps : {"", "30"},
     bitrate : {"", "4500.0"},
     size : {NoSize, SizeMark(512, "B"), SizeMark(1, "kB"), SizeMark(2, "MiB")}]
NoLine == [time |-> NoTime, fps |-> "", bitrate |-> "", size |-> NoSize]

\* int(m.group(2)) of (\d+) in _get_task_details: the dur_s start_now hands over
SessionDurations == {0, 60, 65, 3600}

\* f"{q/d:.1f}" for q >= 0 and d > 0: the nearest tenth, a tie to the even one
format_1f(q, d) ==
    LET t == (10 * q) \div d
        r == (10 * q) % d
        v == IF 2 * r > d \/ (2 * r = d /\ t % 2 = 1) THEN t + 1 ELSE t
    IN  ToString(v \div 10) \o "." \o ToString(v % 10)

\* lines 1279-1282: the size in bytes, unit lower-cased
bytes_now(size) ==
    CASE size.unit \in {"kB", "KiB"} -> size.amt * 1024
      [] size.unit \in {"MB", "MiB"} -> size.amt * 1024 * 1024
      [] OTHER -> size.amt

\* the text of stats_line: f"kbps: {show_kbps}    fps: {show_fps}"
stats_text(show_kbps, show_fps) ==
    <<"kbps:", " ", show_kbps, " ", " ", " ", " ", "fps:", " ", show_fps>>

\* re.search(label + r"\s*([^\s]+)", cur): group 1, "-" when there is no match
RECURSIVE shown(_, _)
shown(cur, label) ==
    IF cur = <<>> THEN "-"
    ELSE IF Head(cur) = label
    THEN LET rest == Strip(Tail(cur))
         IN  IF rest = <<>> THEN shown(Tail(cur), label) ELSE Head(rest)
    ELSE shown(Tail(cur), label)

\* mutant of update_stats_from_line: a value the line does not carry shows as "-"
update_stats_from_line_forgets(lv, line) ==
    LET elapsed == IF line.time.k = "hms"
                   THEN line.time.h * 3600 + line.time.m * 60 + line.time.s
                   ELSE lv.elapsed
        kbps == IF line.bitrate # "" THEN line.bitrate
                ELSE IF line.size.k = "size" /\ elapsed > 0
                THEN format_1f(bytes_now(line.size) * 8, 1000 * elapsed)
                ELSE ""
    IN  [lv EXCEPT !.elapsed = elapsed,
                   !.stats_line = stats_text(IF kbps # "" THEN kbps ELSE "-",
                                             IF line.fps # "" THEN line.fps ELSE "-")]

\* WaitRecordLive._update_stats_from_line
update_stats_from_line(lv, line) ==
    LET elapsed == IF line.time.k = "hms"
                   THEN line.time.h * 3600 + line.time.m * 60 + line.time.s
                   ELSE lv.elapsed
        kbps == IF line.bitrate # "" THEN line.bitrate
                ELSE IF line.size.k = "size" /\ elapsed > 0
                THEN format_1f(bytes_now(line.size) * 8, 1000 * elapsed)
                ELSE ""
        show_kbps == IF kbps # "" THEN kbps ELSE shown(lv.stats_line, "kbps:")
        show_fps == IF line.fps # "" THEN line.fps ELSE shown(lv.stats_line, "fps:")
    IN  [lv EXCEPT !.elapsed = elapsed, !.stats_line = stats_text(show_kbps, show_fps)]

\* min(100, (elapsed/self.dur_s)*100) for dur_s > 0, as a fraction
progress(elapsed, dur_s) ==
    IF elapsed * 100 < 100 * dur_s THEN [num |-> elapsed * 100, den |-> dur_s]
    ELSE [num |-> 100, den |-> 1]

\* lines 1326-1338 of _run for a line that was read: the division of line 1332
\* raises ZeroDivisionError when dur_s is 0, which ends _run in Worker.run
run_line(lv, line) ==
    IF line.time.k = "hms"
    THEN LET elapsed == line.time.h * 3600 + line.time.m * 60 + line.time.s
         IN  IF lv.dur_s = 0
             THEN [lv EXCEPT !.elapsed = elapsed, !.line = line,
                             !.step = "raised", !.loop = "raised"]
             ELSE [update_stats_from_line([lv EXCEPT !.elapsed = elapsed], line)
                      EXCEPT !.pct = progress(elapsed, lv.dur_s),
                             !.line = line, !.step = "run"]
    ELSE [update_stats_from_line(lv, line) EXCEPT !.line = line, !.step = "run"]

\* lines 1340-1344 for a line of what stdout.read() returned
rest_line(lv, line) ==
    [update_stats_from_line(lv, line) EXCEPT !.line = line, !.step = "rest"]

NoLive ==
    [dur_s |-> 0, elapsed |-> 0, pct |-> [num |-> 0, den |-> 1],
     stats_line |-> stats_text("-", "-"), line |-> NoLine, step |-> "none",
     loop |-> "done", running |-> FALSE]
NoProgress == live = NoLive

\* ------------------------------------------------ the actions on them
\* a caller builds an invocation
Build ==
    /\ Len(calls) < MaxCalls
    /\ \E url \in {c.url : c \in Channels}, out_path \in BuildOutputs,
          duration_s \in BuildDurations, q \in DOMAIN quality_opts, crash_safe \in BOOLEAN :
       \E r \in {build_call(FFMPEG, url, out_path, duration_s, quality_opts[q], crash_safe)} :
          /\ calls' = Append(calls, [ffmpeg |-> FFMPEG, stream_url |-> url,
                                     out_path |-> out_path, duration_s |-> duration_s,
                                     quality |-> q, crash_safe |-> crash_safe,
                                     cmd |-> r.cmd])
          /\ quality_opts' = [quality_opts EXCEPT ![q] = r.qopt]
    /\ UNCHANGED <<clock, schedVars, sessVars, tabVars, progVars, pairVars>>

\* the read loop of _run takes a line the engine printed
ReadProgress ==
    /\ live.loop = "reading" /\ live.running
    /\ \E line \in Lines : live' = run_line(live, line)
    /\ UNCHANGED <<clock, schedVars, sessVars, tabVars, buildVars, pairVars>>

\* the engine exits
ProcessExits ==
    /\ live.running
    /\ live' = [live EXCEPT !.running = FALSE, !.step = "exit"]
    /\ UNCHANGED <<clock, schedVars, sessVars, tabVars, buildVars, pairVars>>

\* readline() returns "" and poll() an exit code: the loop ends, and what is left
\* of the output (here at most a line) goes through _update_stats_from_line
ReadRest ==
    /\ live.loop = "reading" /\ ~live.running
    /\ \/ live' = [live EXCEPT !.loop = "done", !.step = "end"]
       \/ \E line \in Lines : live' = [rest_line(live, line) EXCEPT !.loop = "done"]
    /\ UNCHANGED <<clock, schedVars, sessVars, tabVars, buildVars, pairVars>>

NextProgress == ReadProgress \/ ProcessExits \/ ReadRest

\* =================================================== sessions side by side
\* session windows that can be open at once
MaxSessions == 2
SessionIds == 1..MaxSessions
\* the details of two registered tasks, as the detail view holds them
PairDetails ==
    {[stream_url |-> <<"http", ":", "/", "/", "s", "/", "1">>, duration_s |-> 60,
      output_path |-> OUT_DIR \o <<"\\", f, ".", "mp4">>] : f \in {"a", "b"}}
PairOutputs == {d.output_path : d \in PairDetails}
\* no window: nothing was constructed
NoWindow ==
    [out |-> <<>>, stop |-> FALSE, proc |-> "None", engine |-> NoEngine,
     run |-> "none", worker |-> "none", kind |-> "none"]
NoFile == [content |-> "absent", writer |-> 0]
NoPair ==
    /\ sessions = [i \in SessionIds |-> NoWindow]
    /\ disk = [p \in PairOutputs |-> NoFile]

SetSession(i, r) == sessions' = [sessions EXCEPT ![i] = r]

\* start_now for a task's details: WaitRecordLive is constructed with start_at the
\* clock's reading, so its _run goes to the stop check of line 1303
StartNow ==
    \E i \in SessionIds, d \in PairDetails :
       /\ sessions[i].run = "none"
       /\ SetSession(i, [NoWindow EXCEPT !.out = start_now(d).out_file, !.run = "chk"])
       /\ UNCHANGED disk

\* line 1303 of a session's _run
StopCheckOf ==
    \E i \in SessionIds :
       /\ sessions[i].run = "chk"
       /\ SetSession(i, [sessions[i] EXCEPT !.run = stop_check(sessions[i].stop)])
       /\ UNCHANGED disk

\* lines 1305-1313 of a session's _run: Popen starts the session's engine, or raises
LaunchOf ==
    \E i \in SessionIds, started \in BOOLEAN :
       /\ sessions[i].run = "launch"
       /\ SetSession(i, IF started
                        THEN [sessions[i] EXCEPT !.proc = "Popen", !.run = "loop",
                                                 !.engine.state = "running"]
                        ELSE [sessions[i] EXCEPT !.run = "returned"])
       /\ UNCHANGED disk

\* a session's engine opens (creates or truncates) the file at its output path
EngineOpensOf ==
    \E i \in SessionIds :
       /\ sessions[i].engine.state = "running" /\ ~sessions[i].engine.opened
       /\ SetSession(i, [sessions[i] EXCEPT !.engine.opened = TRUE])
       /\ disk' = [disk EXCEPT ![sessions[i].out] = [content |-> "partial", writer |-> i]]

\* a session's engine exits; the file it still holds is complete when it could
\* write the trailer
EngineExitOf ==
    \E i \in SessionIds, trailer \in BOOLEAN :
       /\ sessions[i].engine.state = "running"
       /\ SetSession(i, [sessions[i] EXCEPT !.engine.state = "exited"])
       /\ disk' = IF disk[sessions[i].out].writer = i
                  THEN [disk EXCEPT ![sessions[i].out] =
                           [content |-> IF trailer THEN "complete" ELSE @.content,
                            writer |-> 0]]
                  ELSE disk

\* lines 1316-1353 of a session's _run: a stop terminates the session's own engine;
\* the loop ends when that engine has exited
LoopOf ==
    \E i \in SessionIds :
       /\ sessions[i].run = "loop"
       /\ \/ /\ sessions[i].stop
             /\ SetSession(i, [sessions[i] EXCEPT !.engine = terminate(@),
                                                  !.run = "drain"])
          \/ /\ sessions[i].engine.state = "exited"
             /\ SetSession(i, [sessions[i] EXCEPT !.run = "returned"])
       /\ UNCHANGED disk

\* the rest of the output is read once the engine has exited
DrainOf ==
    \E i \in SessionIds :
       /\ sessions[i].run = "drain" /\ sessions[i].engine.state = "exited"
       /\ SetSession(i, [sessions[i] EXCEPT !.run = "returned"])
       /\ UNCHANGED disk

\* stop_keep or abort_delete of a session's window: its flag, and its worker
RequestOf ==
    \E i \in SessionIds, kind \in {"finisher", "killer"} :
       /\ sessions[i].run # "none" /\ sessions[i].worker = "none"
       /\ SetSession(i, [sessions[i] EXCEPT !.stop = TRUE, !.worker = "check",
                                            !.kind = kind])
       /\ UNCHANGED disk

\* lines 1362-1364, 1376-1378: the worker tests, terminates and awaits self.proc
WorkerProcOf ==
    \E i \in SessionIds :
       LET w == sessions[i] IN
       \/ /\ w.worker = "check"
          /\ \E to \in {worker_check(w.kind, w.proc, w.engine.state)} :
                SetSession(i, [w EXCEPT !.worker = to,
                                        !.engine = IF to = "wait" THEN terminate(@) ELSE @])
          /\ UNCHANGED disk
       \/ /\ w.worker = "wait"
          /\ SetSession(i, [w EXCEPT !.worker = IF w.engine.state = "exited"
                                                 THEN after_process(w.kind)
                                                 ELSE after_timeout(w.kind)])
          /\ UNCHANGED disk

\* a file leaves its path: the engine that holds it open keeps its own file
Unlinked(ss, p) ==
    [j \in SessionIds |->
        IF disk[p].writer = j THEN [ss[j] EXCEPT !.engine = detach(@)] ELSE ss[j]]

\* finalize_recording(self.ffmpeg, self.out), lines 306-316: nothing when the path
\* holds no file; else the remux, and os.replace when it left a .fixed.mp4
FinalizeOf ==
    \E i \in SessionIds, outcome \in RemuxOutcomes, replace_ok \in BOOLEAN :
       LET w == sessions[i]
           done == [sessions EXCEPT ![i].worker = "done"]
       IN  /\ w.worker = "fz_run"
           /\ IF /\ disk[w.out].content # "absent"
                 /\ remux_next(outcome) = "fz_replace"
                 /\ should_replace(remux_output(outcome, "absent")) /\ replace_ok
              THEN /\ disk' = [disk EXCEPT ![w.out] =
                         [content |-> replaced_content(remux_output(outcome, "absent")),
                          writer |-> 0]]
                   /\ sessions' = Unlinked(done, w.out)
              ELSE /\ sessions' = done
                   /\ UNCHANGED disk

\* lines 1381-1385: os.remove(self.out) when the path holds a file; it succeeds,
\* or raises (swallowed)
DeleteOf ==
    \E i \in SessionIds, remove_ok \in BOOLEAN :
       LET w == sessions[i]
           done == [sessions EXCEPT ![i].worker = "done"]
       IN  /\ w.worker = "k_delete"
           /\ IF disk[w.out].content # "absent" /\ remove_ok
              THEN /\ disk' = [disk EXCEPT ![w.out] = NoFile]
                   /\ sessions' = Unlinked(done, w.out)
              ELSE /\ sessions' = done
                   /\ UNCHANGED disk

NextPair ==
    \/ StartNow \/ StopCheckOf \/ LaunchOf \/ EngineOpensOf \/ EngineExitOf
    \/ LoopOf \/ DrainOf \/ RequestOf \/ WorkerProcOf \/ FinalizeOf \/ DeleteOf

\* ------------------------------------------------ specifications
\* no session window is open
NoSession ==
    /\ self = [start_at |-> 0, stop |-> FALSE, proc |-> "None"]
    /\ pc_run = "returned"
    /\ exit_via = ""
    /\ engine = NoEngine
    /\ pipe = "empty"
    /\ outfile = "absent"
    /\ fixedfile = "absent"
    /\ workers = EmptyBag
    /\ hist = NoHist

\* the scheduling form is not used while a session is supervised
IdleForm ==
    /\ clock = 0
    /\ ffmpeg_path = FFMPEG
    /\ channel = NoChannel
    /\ day_var = DayToday
    /\ time_var = TimeHM(20, 0, "")
    /\ dur_var = DurEmpty
    /\ buf_start_var = TRUE /\ buf_start_min = 5
    /\ buf_end_var = TRUE /\ buf_end_min = 5
    /\ filename_var = <<>>
    /\ quality_var = "High"
    /\ crash_safe_var = FALSE
    /\ tasks = {} /\ wrappers = {} /\ nCreate = 0 /\ nRuns = 0 /\ last = NoLast

\* the scheduler: the form as the user filled it in, and the schedule buttons
Init == InitSched /\ NoSession /\ NoTab /\ NoBuild /\ NoProgress /\ NoPair
Spec == Init /\ [][NextSched /\ UNCHANGED <<sessVars, tabVars, buildVars, progVars, pairVars>>]_vars

\* one recording session from its construction on
InitSession == IdleForm /\ InitSess /\ NoTab /\ NoBuild /\ NoProgress /\ NoPair
SpecSession ==
    InitSession /\ [][NextSess /\ UNCHANGED <<tabVars, buildVars, progVars, pairVars>>]_vars

\* the Scheduled Tasks tab after one arm_record that succeeded: a channel is
\* picked, the recording was set for 20:00 today with no start buffer
InitTasks ==
    /\ clock = At(Today, 12, 0, 0)
    /\ ffmpeg_path = FFMPEG
    /\ channel \in Channels
    /\ day_var = DayToday
    /\ time_var = TimeHM(20, 0, "")
    /\ dur_var = DurEmpty
    /\ buf_start_var = FALSE /\ buf_start_min = 5
    /\ buf_end_var = TRUE /\ buf_end_min = 5
    /\ filename_var = <<>>
    /\ quality_var \in {"High", "Medium"}
    /\ crash_safe_var = FALSE
    /\ \E j \in {build_job(resolve(FALSE, clock, clock))} :
          /\ tasks = scheduler_create(PreExisting, j.sch)
          /\ wrappers = write_file({}, j.wrapper)
          /\ last = [j.rec EXCEPT !.k = "created", !.ok = TRUE]
    /\ nCreate = 1 /\ nRuns = 1
    /\ NoSession
    /\ NoTab
    /\ NoBuild
    /\ NoProgress /\ NoPair
SpecTasks == InitTasks /\ [][NextTab /\ UNCHANGED <<buildVars, progVars, pairVars>>]_vars

\* the scheduler gateway: the schedule buttons and the tab's operations on a
\* scheduler that holds no task yet; a channel is picked, the recording is set for
\* 20:00 today
InitGateway ==
    /\ clock = At(Today, 12, 0, 0)
    /\ ffmpeg_path = FFMPEG
    /\ channel \in Channels
    /\ day_var = DayToday
    /\ time_var = TimeHM(20, 0, "")
    /\ dur_var = DurEmpty
    /\ buf_start_var = FALSE /\ buf_start_min = 5
    /\ buf_end_var = TRUE /\ buf_end_min = 5
    /\ filename_var = <<>>
    /\ quality_var = "High"
    /\ crash_safe_var = FALSE
    /\ tasks = {} /\ wrappers = {} /\ nCreate = 0 /\ nRuns = 0 /\ last = NoLast
    /\ NoSession
    /\ NoTab
    /\ NoBuild
    /\ NoProgress /\ NoPair
SpecGateway ==
    InitGateway /\ [][(NextSched /\ UNCHANGED <<sessVars, tabVars, buildVars, progVars, pairVars>>)
                       \/ (NextGateway /\ UNCHANGED <<buildVars, progVars, pairVars>>)]_vars

\* the names create gives: the schedule buttons, the File name entry and the
\* Crash-safe box of the form between two uses of the buttons, and the list of the
\* Scheduled Tasks tab, on a scheduler that holds one recording of a series
InitNames ==
    /\ clock = At(Today, 12, 0, 0)
    /\ ffmpeg_path = FFMPEG
    /\ channel \in Channels
    /\ day_var = DayToday
    /\ time_var = TimeHM(20, 0, "")
    /\ dur_var = DurEmpty
    /\ buf_start_var = FALSE /\ buf_start_min = 5
    /\ buf_end_var = TRUE /\ buf_end_min = 5
    /\ filename_var = <<>>
    /\ quality_var = "High"
    /\ crash_safe_var = FALSE
    /\ tasks = {OldTask(SERIES_TAG \o SeriesLikeFile, <<"ONCE">>, <<>>)}
    /\ wrappers = {} /\ nCreate = 0 /\ nRuns = 0 /\ last = NoLast
    /\ NoSession
    /\ NoTab
    /\ NoBuild
    /\ NoProgress /\ NoPair
SpecNames ==
    InitNames /\ [][(NextSched /\ UNCHANGED <<sessVars, tabVars, buildVars, progVars, pairVars>>)
                     \/ (NextForm /\ UNCHANGED <<sessVars, tabVars, buildVars, progVars, pairVars>>)
                     \/ (NextList /\ UNCHANGED <<buildVars, progVars, pairVars>>)]_vars

\* session windows opened from the detail views of two registered tasks
InitPair == IdleForm /\ NoSession /\ NoTab /\ NoBuild /\ NoProgress /\ NoPair
SpecPair ==
    InitPair /\ [][NextPair /\ UNCHANGED <<clock, schedVars, sessVars, tabVars,
                                            buildVars, progVars>>]_vars

\* calls of build_ffmpeg_cmd by the program's callers, QUALITY_OPTS as the module
\* defines it
InitBuild == IdleForm /\ NoSession /\ NoTab /\ NoBuild /\ NoProgress /\ NoPair
SpecBuild == InitBuild /\ [][Build]_vars

\* a session at the start of its read loop (line 1317): the engine runs, elapsed is
\* 0 and the statistics line reads "kbps: -    fps: -"
InitProgress ==
    /\ IdleForm /\ NoSession /\ NoTab /\ NoBuild /\ NoPair
    /\ \E d \in SessionDurations :
          live = [NoLive EXCEPT !.dur_s = d, !.loop = "reading", !.running = TRUE]
SpecProgress == InitProgress /\ [][NextProgress]_vars

\* ====================================================== properties
\* the latest run of _schedule_task got as far as _ensure_future_start
ReachedResolve == last.k \in {"past", "created", "createfailed"}
RelativeDay(day) == day.k \in {"empty", "today"}
\* the hour of the day a time field names
Hour24(tm) == IF tm.ap = "pm" /\ tm.hh # 12 THEN tm.hh + 12
              ELSE IF tm.ap = "am" /\ tm.hh = 12 THEN 0 ELSE tm.hh
\* the start buffer and end buffer the form asks for, in minutes
FormStartBuffer == IF buf_start_var THEN buf_start_min ELSE 0
FormEndBuffer == IF buf_end_var THEN buf_end_min ELSE 0
\* the text of an instant as schtasks gets it: /SD and /ST
TriggerDate(t) == <<DateText(t)>>
TriggerTime(t) == <<Pad2(HourOf(t)) \o ":" \o Pad2(MinuteOf(t))>>
\* the wrapper script of a task, and the token after "-t " in its command line
WrapperOf(name) == CHOOSE w \in wrappers : w.script = name \o <<".", "cmd">>
DurationArg(cmd_str) ==
    LET i == CHOOSE i \in 1..Len(cmd_str) : cmd_str[i] = "-t" IN cmd_str[i + 2]

\* C1: every create request hands the scheduler a trigger (the buffer-adjusted
\* start_at) that is strictly later than the clock at the moment of registration.
C1_TriggerInFuture == last.issued => last.start_at > last.now2

\* the example of C2: a one-time job at 20:00 for one hour with m = 5 and n = 2
C2_Example ==
    /\ last.issued /\ ~last.recurring
    /\ HourOf(last.nominal) = 20 /\ MinuteOf(last.nominal) = 0
    /\ last.req_dur = 3600
    /\ buf_start_var /\ buf_start_min = 5 /\ buf_end_var /\ buf_end_min = 2

\* C2 (amended): the registered job starts at S - m*60 and captures for
\* D + (m+n)*60 seconds, S the nominal start, D the requested duration, m and n the
\* enabled buffers (0 when disabled): in the run's record, in the -t argument of the
\* wrapper script, and in the /SD and /ST of the task the scheduler holds. The
\* example (20:00, one hour, m = 5, n = 2) is registered for 19:55 and 4020 seconds.
C2_BufferArithmetic ==
    last.issued =>
        LET S == last.nominal
            D == last.req_dur
            m == FormStartBuffer
            n == FormEndBuffer
        IN  /\ last.start_at = S - m * 60
            /\ last.dur_s = D + (m + n) * 60
            /\ DurationArg(WrapperOf(last.task_name).cmd_str) = ToString(D + (m + n) * 60)
            /\ last.ok => \E t \in tasks :
                              /\ t.name = last.task_name
                              /\ t.sd = TriggerDate(S - m * 60)
                              /\ t.st = TriggerTime(S - m * 60)
            /\ C2_Example =>
                  /\ TriggerTime(last.start_at) = <<"19:55">>
                  /\ DateOf(last.start_at) = DateOf(S)
                  /\ DurationArg(WrapperOf(last.task_name).cmd_str) = "4020"

\* C2 as stated: the same, with the example registered for 19:55 and 3900 seconds
C2_AsStated ==
    last.issued =>
        /\ last.start_at = last.nominal - FormStartBuffer * 60
        /\ last.dur_s = last.req_dur + (FormStartBuffer + FormEndBuffer) * 60
        /\ C2_Example =>
              /\ TriggerTime(last.start_at) = <<"19:55">>
              /\ last.dur_s = 3900

\* C2's case: the example, registered with the scheduler
C2_Witness ==
    /\ C2_Example /\ last.ok
    /\ last.dur_s = 4020
    /\ \E t \in tasks : t.name = last.task_name /\ t.st = <<"19:55">>
                        /\ t.sd = TriggerDate(last.nominal)

\* C3: day "today" or empty and a resolved instant not after now: the start is the
\* same time of day on the next calendar day, the "moved" notice is shown, and the
\* run goes on to issue the create.
C3_TodayPastRollsForward ==
    (ReachedResolve /\ RelativeDay(last.day_in) /\ last.parsed <= last.now2) =>
        /\ last.nominal = last.parsed + SecPerDay
        /\ DateOf(last.nominal) = DateOf(last.parsed) + 1
        /\ HourOf(last.nominal) = Hour24(last.tm_in)
        /\ MinuteOf(last.nominal) = last.tm_in.mm
        /\ SecondOf(last.nominal) = 0
        /\ last.notice = "moved"
        /\ last.issued

C3_Witness ==
    /\ RelativeDay(last.day_in) /\ last.parsed <= last.now2
    /\ last.k = "created" /\ last.notice = "moved"

\* C4: an explicit date and a resolved instant not after now: the run fails with the
\* "past" error, issues no create, and leaves tasks and wrapper scripts as they were.
C4_ExplicitPastFails ==
    /\ [](  (ReachedResolve /\ last.day_in.k = "date" /\ last.parsed <= last.now2) =>
                (last.k = "past" /\ last.notice = "past" /\ ~last.ok /\ ~last.issued))
    /\ [][ (nRuns' # nRuns /\ last'.k = "past") =>
                (tasks' = tasks /\ wrappers' = wrappers /\ nCreate' = nCreate) ]_vars

C4_Witness ==
    /\ last.k = "past" /\ last.day_in.k = "date" /\ last.parsed <= last.now2
    /\ tasks # {} /\ wrappers # {} /\ nCreate = 1

\* C5: day "today" or empty and a resolved instant strictly after now: the start is
\* today's date at exactly that hour and minute, seconds zero, with no notice and
\* no change of the form's day and time.
C5_TodayFutureKept ==
    (ReachedResolve /\ RelativeDay(last.day_in) /\ last.parsed > last.now2) =>
        /\ last.nominal = At(DateOf(last.now1), Hour24(last.tm_in), last.tm_in.mm, 0)
        /\ last.notice = "none"
        /\ day_var = last.day_in /\ time_var = last.tm_in

C5_Witness ==
    /\ last.k = "created" /\ RelativeDay(last.day_in) /\ last.parsed > last.now2
    /\ last.tm_in.ap = "pm" /\ last.nominal = At(Today, 20, 0, 0)

\* ------------------------------------------------ the session's properties
Done(w) == w.pc = "done"
AllWorkersDone == \A w \in Workers : Done(w)
\* _run returned at line 1303: no process, no file
Aborted == pc_run = "returned" /\ exit_via = "cancelled"

\* C6: a stop or abort requested while _run has the stop check of line 1303 still
\* ahead (it waits for start_at, or has just left the wait) never starts the engine:
\* _run goes to no launch and returns through the cancelled exit.
C6_CancelWhileWaiting ==
    hist.req_early =>
        /\ hist.launches = 0
        /\ engine.state = "none"
        /\ self.proc = "None"
        /\ pc_run \in BeforeStopCheck \cup {"returned"}
        /\ pc_run = "returned" => Aborted

\* C6's case: the request came while the clock was before start_at, and _run is over
C6_Witness ==
    /\ hist.req_waiting /\ Aborted
    /\ \E w \in Workers : Done(w)

\* C7: a stop-and-finalize worker that found the engine running has called the
\* finalize pass when it is done, whether its wait ended by the exit of the
\* process or by the deadline.
C7_StopRunsFinalize ==
    \A w \in Workers :
        (w.kind = "finisher" /\ w.saw_running /\ Done(w)) => w.finalize

\* C8: the finalize pass replaces the output file only after a remux that succeeded.
C8_ReplaceOnlyOnSuccess ==
    \A w \in Workers : w.replaced => w.remux = "ok"

\* C9: when only aborts were requested, _run has returned, every killer is done with
\* no wait that ran into its deadline and no delete that failed, the output file
\* does not exist.
C9_AbortLeavesNoFile ==
    (/\ pc_run = "returned"
     /\ Workers # {}
     /\ \A w \in Workers : w.kind = "killer" /\ ~w.timed_out /\ w.remove # "failed"
     /\ AllWorkersDone)
        => outfile = "absent"

\* C10: a stop or abort worker that found the engine running and whose grace period
\* ran out has, when it is done, left no engine process running (it escalated to a
\* forceful termination).
C10_EscalatesAfterGrace ==
    \A w \in Workers :
        (w.saw_running /\ w.timed_out /\ Done(w)) => engine.state # "running"

\* a worker that ran a terminal operation on the file: a finalize pass or a delete
Acted(w) == w.finalize \/ w.remove # "none"

\* C11: at most one terminal operation is run on a session's output file: no two
\* workers (stop, abort, close) both run a finalize pass or a delete.
C11_OneTerminalOperation ==
    \A w \in Workers :
        Acted(w) => /\ CopiesIn(w, workers) = 1
                    /\ \A v \in Workers \ {w} : ~Acted(v)

\* C12: a session starts the engine at most once; once _run has returned (finished,
\* cancelled, or after a failed launch) no process is started any more.
C12_LaunchAtMostOnce ==
    /\ [](/\ hist.launches <= 1
          /\ (hist.launches = 0) <=> (engine.state = "none")
          /\ exit_via = "failed" => hist.launches = 0)
    /\ [][pc_run = "returned" =>
             /\ hist'.launches = hist.launches
             /\ pc_run' = "returned"
             /\ self'.proc = self.proc]_vars

\* C12's case: the engine was started, has exited, _run is over and a request followed
C12_Witness ==
    /\ pc_run = "returned" /\ exit_via = "finished" /\ hist.launches = 1
    /\ \E w \in Workers : Done(w) /\ ~w.saw_running

TaskOf(name) == CHOOSE t \in tasks : t.name = name
ScheduleOf(recurring) == IF recurring THEN <<"WEEKLY">> ELSE <<"ONCE">>

\* C16: the scheduler holds at most one task per name; after a create that
\* succeeded the task of that name is the one just registered (its schedule type,
\* trigger and wrapper script), also when a task of that name existed; and a create
\* that repeats the registered task leaves the scheduler's tasks as they were.
C16_CreateOverwrites ==
    /\ [](/\ \A t1, t2 \in tasks : t1.name = t2.name => t1 = t2
          /\ last.k = "created" =>
                /\ \E t \in tasks : t.name = last.task_name
                /\ TaskOf(last.task_name).sc = ScheduleOf(last.recurring)
                /\ TaskOf(last.task_name).st = TriggerTime(last.start_at)
                /\ TaskOf(last.task_name).sd = TriggerDate(last.start_at)
                /\ TaskOf(last.task_name).tr = last.task_name \o <<".", "cmd">>
                /\ DurationArg(WrapperOf(last.task_name).cmd_str) = ToString(last.dur_s))
    /\ [][ (/\ nRuns' # nRuns /\ last'.k = "created" /\ last'.existed
            /\ TaskOf(last'.task_name).sc = ScheduleOf(last'.recurring)
            /\ TaskOf(last'.task_name).st = TriggerTime(last'.start_at)
            /\ TaskOf(last'.task_name).sd = TriggerDate(last'.start_at))
           => tasks' = tasks ]_vars

\* C16's case: a create for a name that was registered as a one-time task replaced
\* it by a weekly task, and the scheduler holds that one task
C16_Witness ==
    /\ last.k = "created" /\ last.existed /\ last.recurring
    /\ Cardinality(tasks) = 1
    /\ TaskOf(last.task_name).sc = <<"WEEKLY">>

\* ------------------------------------------------ the tab's properties
\* the output file _schedule_task gave the latest job
OutPathOfLast ==
    OUT_DIR \o <<"\\">> \o auto_filename(channel.name, last.start_at)
NamesOf(ts) == {t.name : t \in ts}
IndexNames == {tasks_index[i].name : i \in 1..Len(tasks_index)}
\* the rows of the listing below the header row
ListingRows == {listing[i] : i \in 2..Len(listing)}

\* C15: the details fetched for the task the latest create registered (the query
\* exited 0) are recovered: source URL, duration in seconds and output path are
\* those of the registered job.
C15_QueryOneRoundTrip ==
    (/\ answer.op = "details" /\ answer.rc = 0
     /\ last.k = "created" /\ answer.name = last.task_name)
        => /\ answer.ok
           /\ answer.stream_url = channel.url
           /\ answer.duration_s = ToString(last.dur_s)
           /\ answer.output_path = OutPathOfLast

\* C17: after a query that succeeded the tasks list holds exactly the names of the
\* listing's rows that are as wide as the header row and whose name begins with
\* IPTV_DVR.
C17_QueryAllFilter ==
    listing # <<>> =>
        IndexNames = {r[1] : r \in {x \in ListingRows :
                                       /\ Len(x) = Len(listing[1])
                                       /\ StartsWith(x[1], SYSTEM_TAG)}}

\* a name made of the prefix, the series tag, a series name, and _<date>_<time>
IsSeriesNameOf(nm, key) ==
    /\ Len(nm) = Len(key) + 4
    /\ SubSeq(nm, 1, Len(key)) = key
    /\ Len(key) > Len(SERIES_TAG) /\ SubSeq(key, 1, Len(SERIES_TAG)) = SERIES_TAG
    /\ nm[Len(key) + 1] = "_" /\ nm[Len(key) + 2] \in Digits8
    /\ nm[Len(key) + 3] = "_" /\ nm[Len(key) + 4] \in Digits4to6
\* the prefixes of a name
PrefixesOf(nm) == {SubSeq(nm, 1, k) : k \in 0..Len(nm)}

\* C18: for every task name of the scheduler, the group key is the series key when
\* the name is a series name (so two recordings of one series have the same key,
\* whatever their date and time), and None for a name without the series tag or
\* without the date and time; the key the series list shows is the key of a name
\* of the tasks list.
C18_GroupKey ==
    /\ \A nm \in NamesOf(tasks) :
          /\ \A key \in PrefixesOf(nm) :
                IsSeriesNameOf(nm, key) => series_group_key(nm) = key
          /\ (~\E key \in PrefixesOf(nm) : IsSeriesNameOf(nm, key))
                => series_group_key(nm) = <<>>
    /\ \A a, b \in NamesOf(tasks) :
          (\E key \in PrefixesOf(a) : IsSeriesNameOf(a, key) /\ IsSeriesNameOf(b, key))
             => series_group_key(a) = series_group_key(b)
    /\ series_info.key # <<>> =>
          \E nm \in IndexNames : IsSeriesNameOf(nm, series_info.key)

\* C18's case: a recording of a series was selected while the list holds two
\* recordings of that series with different dates and times
C18_Witness ==
    /\ series_info.key # <<>>
    /\ \E a, b \in IndexNames :
          /\ a # b
          /\ IsSeriesNameOf(a, series_info.key) /\ IsSeriesNameOf(b, series_info.key)
    /\ \E c \in IndexNames : series_group_key(c) = <<>>

\* the names of the tasks list that are key, "_" and a suffix, in the list's order
MembersOf(key) ==
    LET m == SelectSeq(tasks_index, LAMBDA t : StartsWith(t.name, key \o <<"_">>))
    IN  [i \in 1..Len(m) |-> m[i].name]

\* C19: after a series task was selected, the series list shows, with no error,
\* every task of the tasks list whose name is the key, "_" and a suffix, and no
\* other, in ascending order of the names.
C19_SeriesView ==
    series_info.key # <<>> =>
        /\ ~series_info.error
        /\ series_info.members = MembersOf(series_info.key)
        /\ \A i \in 1..(Len(series_info.members) - 1) :
              StrLess(series_info.members[i], series_info.members[i + 1])

\* the names of a sequence of failures
FailedNames(fs) == [i \in 1..Len(fs) |-> fs[i].name]
\* the names of a list that obey a test, in the order of the list
Those(names, Test(_)) == SelectSeq(names, Test)

\* C20: a delete of a batch reports, for every list of names and every pattern of
\* failures: successes + failures = names; the successes are the tasks that left the
\* scheduler; the failures are the other names, in the order of the list, each with
\* a code that is not 0; and ok exactly when nothing failed.
C20_BatchDelete ==
    [][ (answer'.op = "delete" /\ (answer' # answer \/ tasks' # tasks)) =>
           LET gone == NamesOf(tasks) \ NamesOf(tasks')
           IN  /\ answer'.successes + Len(answer'.failures) = Len(answer'.names)
               /\ answer'.successes = Cardinality(gone)
               /\ gone \subseteq {answer'.names[k] : k \in 1..Len(answer'.names)}
               /\ FailedNames(answer'.failures)
                     = Those(answer'.names, LAMBDA n : n \notin gone)
               /\ \A i \in 1..Len(answer'.failures) : answer'.failures[i].rc # 0
               /\ answer'.ok <=> (Len(answer'.failures) = 0)
               /\ NamesOf(tasks') \subseteq NamesOf(tasks) ]_vars

\* C20's case: three names, one delete failed: two successes and one failure entry
\* that carries the name of the task the scheduler still holds
C20_Witness ==
    /\ answer.op = "delete" /\ Len(answer.names) = 3
    /\ answer.successes = 2 /\ Len(answer.failures) = 1 /\ ~answer.ok
    /\ answer.failures[1].name \in NamesOf(tasks)
    /\ answer.failures[1].rc = 124

\* ------------------------------------------------ the invocation of the engine
\* the first position of argument a in the list cmd, 0 when it has none
Pos(cmd, a) ==
    IF \E i \in 1..Len(cmd) : cmd[i] = a
    THEN CHOOSE i \in 1..Len(cmd) : cmd[i] = a /\ \A j \in 1..(i - 1) : cmd[j] # a
    ELSE 0
\* the argument after option o, <<>> when the option is absent or last
ValueOf(cmd, o) ==
    IF Pos(cmd, <<o>>) > 0 /\ Pos(cmd, <<o>>) < Len(cmd) THEN cmd[Pos(cmd, <<o>>) + 1]
    ELSE <<>>
\* the three reconnect options, each with "1"
ReconnectOptions == {"-reconnect", "-reconnect_streamed", "-reconnect_at_eof"}
HasReconnect(cmd) == \A o \in ReconnectOptions : ValueOf(cmd, o) = <<"1">>
\* where the stream and codec selection begins: -c in copy mode, -map otherwise
CodecStart(cmd) == IF Pos(cmd, <<"-map">>) > 0 THEN Pos(cmd, <<"-map">>) ELSE Pos(cmd, <<"-c">>)
\* -i url, -t seconds, selection flags, container flags and the output path, in
\* this order, the output path last
TailInOrder(c) ==
    LET i == Pos(c.cmd, <<"-i">>)
        t == Pos(c.cmd, <<"-t">>)
        mov == Pos(c.cmd, <<"-movflags">>)
    IN  /\ i > 0 /\ ValueOf(c.cmd, "-i") = c.stream_url
        /\ t = i + 2 /\ ValueOf(c.cmd, "-t") = <<ToString(c.duration_s)>>
        /\ t + 1 < CodecStart(c.cmd)
        /\ CodecStart(c.cmd) < mov
        /\ mov = Len(c.cmd) - 2
        /\ c.cmd[Len(c.cmd)] = c.out_path
        /\ \A o \in ReconnectOptions \cup {"-user_agent"} :
              Pos(c.cmd, <<o>>) > 0 /\ Pos(c.cmd, <<o>>) + 1 < i
        /\ ValueOf(c.cmd, "-user_agent") = UA
        /\ HasReconnect(c.cmd)
TheCalls == {calls[k] : k \in 1..Len(calls)}

\* C21 as stated: in every invocation the reconnect flags come first, then the
\* user-agent, then -i <source_url>, -t <duration_seconds>, the stream/codec
\* selection, the container flags and the output path as the final argument
C21_AsStated ==
    \A c \in TheCalls :
        /\ TailInOrder(c)
        /\ \A o \in ReconnectOptions : Pos(c.cmd, <<o>>) < Pos(c.cmd, <<"-user_agent">>)

\* C21 amended: every invocation holds the user-agent and then the reconnect flags,
\* all of them before -i <source_url>, which -t <duration_seconds>, the selection
\* flags, the container flags and the output path follow in this order, the output
\* path being the final argument; the reconnect flags and the fixed client identity
\* are in every invocation
C21_InvocationOrder ==
    \A c \in TheCalls :
        /\ TailInOrder(c)
        /\ \A o \in ReconnectOptions : Pos(c.cmd, <<"-user_agent">>) < Pos(c.cmd, <<o>>)

\* C21: invocations of every profile and of both crash_safe values were built
C21_Witness ==
    /\ Len(calls) = MaxCalls
    /\ {c.quality : c \in TheCalls} = DOMAIN QUALITY_OPTS
    /\ \E c \in TheCalls : c.crash_safe

\* C22: the container flags are the same in copy and transcode modes (fast start
\* always, the fragmented flags with the empty initial index exactly when crash_safe
\* is set); copy mode passes audio and video through, a transcode mode asks for the
\* profile's video bitrate as target and as maximum and for its audio bitrate
FragFlags == <<"+frag_keyframe", "+empty_moov">>
C22_ContainerAndCodec ==
    \A c \in TheCalls :
        LET mov == ValueOf(c.cmd, "-movflags")
            prof == QUALITY_OPTS[c.quality]
        IN  /\ Contains(mov, <<"+faststart">>)
            /\ Contains(mov, FragFlags) <=> c.crash_safe
            /\ (c.quality = "High") =>
                  /\ ValueOf(c.cmd, "-c") = <<"copy">>
                  /\ \A o \in {"-c:v", "-c:a", "-b:v", "-b:a"} : Pos(c.cmd, <<o>>) = 0
            /\ (c.quality # "High") =>
                  /\ ValueOf(c.cmd, "-b:v") = <<prof.v_bitrate>>
                  /\ ValueOf(c.cmd, "-maxrate") = <<prof.v_bitrate>>
                  /\ ValueOf(c.cmd, "-b:a") = <<prof.a_bitrate>>
                  /\ Pos(c.cmd, <<"-c">>) = 0

\* C22: a transcode invocation with crash_safe, and a copy one without, were built
C22_Witness ==
    /\ \E c \in TheCalls : c.quality = "Medium" /\ c.crash_safe
    /\ \E c \in TheCalls : c.quality = "High" /\ ~c.crash_safe

\* the arguments of a call
ArgsOf(c) == <<c.ffmpeg, c.stream_url, c.out_path, c.duration_s, c.quality, c.crash_safe>>

C23_DurationAtLeastOne ==
    last.k = "created" =>
        /\ last.dur_s >= 1
        /\ DurationArg(WrapperOf(last.task_name).cmd_str) = ToString(last.dur_s)

\* ------------------------------------------------ the trigger of a weekly job
\* the name schtasks has for the weekday of day number d (day 0 is a Monday)
DayName(d) ==
    CASE d % 7 = 0 -> "MON" [] d % 7 = 1 -> "TUE" [] d % 7 = 2 -> "WED"
      [] d % 7 = 3 -> "THU" [] d % 7 = 4 -> "FRI" [] d % 7 = 5 -> "SAT"
      [] OTHER -> "SUN"
\* the start the latest run resolved, moved back by the form's start buffer
AdjustedStart == last.nominal - FormStartBuffer * SecPerMin

\* C28: a weekly create registers the weekday of the calendar date of the
\* buffer-adjusted start, and that date as the start date, also when the buffer
\* moves the start across midnight to the day before; a one-time create registers
\* one firing at that date and time
C28_WeeklyDay ==
    last.k = "created" =>
        LET t == TaskOf(last.task_name)
        IN  /\ t.sd = <<"d" \o ToString(AdjustedStart \div SecPerDay)>>
            /\ t.st = TriggerTime(AdjustedStart)
            /\ last.recurring =>
                  t.sc = <<"WEEKLY">> /\ t.d = <<DayName(AdjustedStart \div SecPerDay)>>
            /\ ~last.recurring => t.sc = <<"ONCE">> /\ t.d = <<>>

\* C28's case: a weekly job whose start buffer moved the start to the day before
C28_Witness ==
    /\ last.k = "created" /\ last.recurring
    /\ FormStartBuffer > 0
    /\ AdjustedStart \div SecPerDay < last.nominal \div SecPerDay
    /\ TaskOf(last.task_name).d # <<DayName(last.nominal \div SecPerDay)>>

\* ------------------------------------------------ progress of a session
\* the values the statistics line shows
ShownKbps(lv) == lv.stats_line[3]
ShownFps(lv) == lv.stats_line[10]
\* the seconds a time marker stands for
MarkSeconds(t) == 3600 * t.h + 60 * t.m + t.s
\* the read loop handled a line that carries an elapsed-time marker
ReportedProgress == live.step = "run" /\ live.line.time.k = "hms"

\* C24: for every progress line with an elapsed-time marker and every target
\* duration a session can be created with, the reported progress is
\* min(100, elapsed/target_duration*100) and lies in 0..100, and computing it never
\* ends the read loop while the engine process is still running
C24_Progress ==
    /\ ReportedProgress =>
          /\ live.elapsed = MarkSeconds(live.line.time)
          /\ live.pct.den > 0
          /\ 0 <= live.pct.num /\ live.pct.num <= 100 * live.pct.den
          /\ IF live.elapsed >= live.dur_s
             THEN live.pct.num = 100 * live.pct.den
             ELSE live.pct.num * live.dur_s = 100 * live.elapsed * live.pct.den
    /\ (live.line.time.k = "hms" /\ live.step \in {"run", "raised"}) =>
          (live.loop # "reading" => ~live.running)

\* a step in which _update_stats_from_line handled a line
ParsedLine == live'.step \in {"run", "rest"} /\ live' # live
\* the text of a number of tenths
OneDecimal(t) == ToString(t \div 10) \o "." \o ToString(t % 10)
\* text v is bytes*8/1000/elapsed to the one decimal shown
IsThroughput(v, bytes, elapsed) ==
    \E t \in {(80 * bytes) \div (1000 * elapsed), (80 * bytes) \div (1000 * elapsed) + 1} :
        /\ v = OneDecimal(t)
        /\ 2 * (1000 * elapsed * t - 80 * bytes) <= 1000 * elapsed
        /\ 2 * (80 * bytes - 1000 * elapsed * t) <= 1000 * elapsed
\* the bytes a size marker stands for
MarkBytes(size) ==
    IF size.unit = "B" THEN size.amt
    ELSE IF size.unit \in {"kB", "KiB"} THEN 1024 * size.amt
    ELSE 1024 * 1024 * size.amt
\* 'frame=100 fps=30 time=00:01:05 bitrate=4500.0kbits/s'
ExampleLine ==
    [time |-> TimeMark(0, 1, 5), fps |-> "30", bitrate |-> "4500.0", size |-> NoSize]

\* C25: a line with time=HH:MM:SS sets elapsed_seconds to 3600*HH + 60*MM + SS, a
\* frame-rate marker sets fps, a bitrate marker in kbit/s sets bitrate_kbps, and
\* only when that marker is absent and elapsed > 0 is the bitrate derived from the
\* size marker, as bytes*8/1000/elapsed (shown to one decimal); a value whose
\* marker the line lacks stays as it was. The example line gives 65, 30, 4500.0
C25_Parsing ==
    [][ ParsedLine =>
          LET l == live'.line
              derived == l.bitrate = "" /\ l.size.k = "size" /\ live'.elapsed > 0
          IN  /\ live'.elapsed = IF l.time.k = "hms" THEN MarkSeconds(l.time)
                                 ELSE live.elapsed
              /\ ShownFps(live') = IF l.fps # "" THEN l.fps ELSE ShownFps(live)
              /\ l.bitrate # "" => ShownKbps(live') = l.bitrate
              /\ derived => IsThroughput(ShownKbps(live'), MarkBytes(l.size), live'.elapsed)
              /\ (l.bitrate = "" /\ ~derived) => ShownKbps(live') = ShownKbps(live)
              /\ l = ExampleLine =>
                    /\ live'.elapsed = 65
                    /\ ShownFps(live') = "30"
                    /\ ShownKbps(live') = "4500.0" ]_vars

\* C25's cases: the example line was parsed after other values were shown; and a
\* bitrate was derived from a size marker and then kept by a line without markers
C25_Witness ==
    /\ live.step = "run" /\ live.line = NoLine
    /\ live.elapsed = 65 /\ ShownFps(live) = "30" /\ ShownKbps(live) = "258.1"

\* ------------------------------------------------ a listing that is no table
\* the output has a header row with the TaskName column
Tabular(rdr) ==
    rdr # <<>> /\ \E j \in 1..Len(rdr[1]) : Strip(rdr[1][j]) = <<"TaskName">>

\* C27: when the scheduler exits with success but its listing cannot be parsed as
\* the table, query_all reports a failure to the caller, not a successful empty
\* task list
C27_UnparseableListing ==
    (answer.op = "query" /\ answer.rc = 0 /\ ~Tabular(listing)) => ~answer.ok

\* ------------------------------------------------ the gateway's invocations
\* the failures a delete reported, as a set
FailuresOf(a) == {a.failures[k] : k \in 1..Len(a.failures)}

\* C26: create, query_all, query_one and each name of a bulk delete invoke the
\* scheduler exactly once per request; a timeout, a non-zero exit or a failure to
\* run it comes back to the caller as a failure with the code, and nothing is
\* retried
C26_OncePerRequest ==
    /\ [](/\ answer.op \in {"query", "details"} =>
                /\ answer.calls = 1
                /\ answer.rc # 0 => ~answer.ok /\ answer.rc \in {1, 124, 125}
          /\ answer.op = "delete" =>
                /\ answer.calls = Len(answer.names)
                /\ answer.successes + Len(answer.failures) = Len(answer.names)
                /\ \A f \in FailuresOf(answer) : f.rc \in {1, 124, 125}
                /\ answer.ok <=> answer.failures = <<>>)
    /\ [][ nRuns' # nRuns =>
              /\ nCreate' = nCreate + (IF last'.issued THEN 1 ELSE 0)
              /\ (last'.issued /\ last'.rc # 0) =>
                    /\ ~last'.ok /\ last'.k = "createfailed"
                    /\ last'.rc \in {1, 124, 125}
                    /\ tasks' = tasks ]_vars

\* C26's case: a create timed out after one that succeeded, and a delete of two
\* names had a failure
C26_Witness ==
    /\ nCreate = 2 /\ last.k = "createfailed" /\ last.rc = 124
    /\ answer.op = "delete" /\ Len(answer.names) = 2 /\ Len(answer.failures) = 1

\* ------------------------------------------------ names of a series
\* name n embeds the series tag followed by _<8 digits>_<4 to 6 digits>
HasSeriesSuffix(n) ==
    /\ StartsWith(n, APP_PREFIX \o <<"SERIES", "_">>)
    /\ \E i \in (Len(APP_PREFIX) + 3)..(Len(n) - 3) :
          /\ n[i] = "_" /\ n[i + 1] \in Digits8
          /\ n[i + 2] = "_" /\ n[i + 3] \in Digits4to6
          /\ i + 3 = Len(n)

\* C30: every job the series-subscribe action registered has a name that begins
\* with the system prefix and embeds the series tag followed by
\* _<YYYYMMDD>_<HHMM[SS]>; group_key of each is not None, and the jobs of one
\* action share one group key
C30_SeriesNames ==
    answer.op = "series" =>
        LET registered == {answer.names[k] : k \in 1..Len(answer.names)}
        IN  /\ registered # {} /\ registered \subseteq NamesOf(tasks)
            /\ \A n \in registered :
                  /\ StartsWith(n, APP_PREFIX)
                  /\ HasSeriesSuffix(n)
                  /\ series_group_key(n) # <<>>
            /\ \A n1, n2 \in registered : series_group_key(n1) = series_group_key(n2)

\* C30's case: one action registered two jobs of a series
C30_Witness ==
    /\ answer.op = "series" /\ Len(answer.names) = 2
    /\ answer.names[1] # answer.names[2]

\* ------------------------------------------------ input that cannot be parsed
\* the form's time of day cannot be parsed: no match, or hour or minute out of range
BadTimeOfDay == ~time_var.m \/ Hour24(time_var) > 23 \/ time_var.mm > 59
\* a run of _schedule_task that got as far as reading the form's time
ReadsForm == nRuns' # nRuns /\ ffmpeg_path # <<>> /\ channel # NoChannel /\ day_var.k # "bad"
\* a run that wrote no wrapper script and called the scheduler for nothing
NothingRegistered == tasks' = tasks /\ wrappers' = wrappers /\ nCreate' = nCreate

\* C31: a time of day that cannot be parsed (an hour or minute out of range
\* included) or a non-empty duration that cannot be parsed makes the schedule
\* operation fail with the time or the duration error, with no wrapper script
\* written and no create issued; an empty duration is no error and resolves to 7500
\* seconds
C31_ParseFailures ==
    [][ ReadsForm =>
          /\ BadTimeOfDay =>
                last'.k = "badtime" /\ ~last'.ok /\ ~last'.issued /\ NothingRegistered
          /\ (~BadTimeOfDay /\ dur_var.k = "bad") =>
                last'.k = "baddur" /\ ~last'.ok /\ ~last'.issued /\ NothingRegistered
          /\ (~BadTimeOfDay /\ dur_var.k = "empty") =>
                last'.k \in {"past", "created", "createfailed"} /\ last'.req_dur = 7500
       ]_vars

\* C31's cases: a run failed on an hour out of range; the state has no wrapper script
C31_Witness ==
    /\ last.k = "badtime" /\ last.tm_in.m /\ Hour24(last.tm_in) > 23
    /\ nRuns = 2 /\ wrappers = {} /\ nCreate = 0
\* the names line 1093 selected as the members of the series of the selected task
Matched == {series_info.matches[i] : i \in 1..Len(series_info.matches)}

\* C38: every task selected as a member of the series with key k has the group key
\* k, so a task whose name is k, "_" and further text, which is not the date and
\* time of a recording of k, is not among the members of k.
C38_MembersHaveKey ==
    series_info.key # <<>> =>
        \A nm \in Matched : series_group_key(nm) = series_info.key

\* a run of _schedule_task that got as far as the scheduler and was refused
FailedCreate == nRuns' # nRuns /\ last'.k = "createfailed"

\* C36: a create request that fails leaves every registered task as it was, and
\* leaves the wrapper script each registered task runs with the command it had.
C36_FailedCreateNoEffect ==
    [][FailedCreate =>
          /\ tasks' = tasks
          /\ \A t \in tasks : \A w \in wrappers : w.script = t.tr => w \in wrappers']_vars

\* C37: when a job is given a task name after another job was registered, and the
\* two jobs have different output files, the two task names are different.
C37_DistinctNames ==
    [][(/\ nRuns' # nRuns /\ last'.issued
        /\ last.k = "created" /\ last'.out_path # last.out_path)
          => last'.task_name # last.task_name]_vars

\* C33: the name create gives to a job begins with the system prefix and has no
\* group key, and the job that was created is not among the tasks selected as the
\* members of a series.
C33_CreatedNamesNoSeries ==
    /\ last.issued =>
          /\ StartsWith(last.task_name, APP_PREFIX)
          /\ series_group_key(last.task_name) = <<>>
    /\ last.k = "created" => last.task_name \notin Matched

\* the details of the invocation that the latest create registered
RegisteredDetails ==
    [stream_url |-> channel.url, output_path |-> last.out_path, duration_s |-> last.dur_s]

\* C39: for a task this program registered and the scheduler holds, the invocation
\* of a session started from the task's details (source, output, duration) is the
\* invocation the task's wrapper script runs.
C39_StartNowSameJob ==
    (last.k = "created" /\ \E t \in tasks : t.name = last.task_name) =>
        Join(<<" ">>, QuoteAll(session_cmd(start_now(RegisteredDetails))))
           = WrapperOf(last.task_name).cmd_str

\* pc values of _run inside the wait loop of lines 1295-1302
Waiting == {"w_test", "w_now"}

\* C34: the engine is launched only when the clock has reached start_at; _run
\* leaves the wait loop only for the stop check, and only when start_at was
\* reached or a stop was requested; a session whose start_at is not after the
\* clock goes to the stop check and the launch without entering the wait loop.
C34_LaunchNotBeforeStart ==
    [][/\ (pc_run = "launch" /\ pc_run' # pc_run) => clock >= self.start_at
       /\ engine'.state = "running" => clock >= self.start_at
       /\ (pc_run \in Waiting /\ pc_run' \notin Waiting) =>
             /\ pc_run' = "chk"
             /\ clock >= self.start_at \/ self.stop
       /\ (pc_run = "begin" /\ pc_run' # pc_run /\ self.start_at <= clock) =>
             pc_run' = "chk"
       /\ (pc_run = "chk" /\ pc_run' # pc_run /\ ~self.stop) => pc_run' = "launch"]_vars

\* C34's case: a session that had to wait for its start_at has launched the engine
C34_Witness ==
    /\ self.start_at > 0 /\ clock >= self.start_at
    /\ ~self.stop /\ hist.launches = 1 /\ engine.state = "running"

\* _run can still launch the engine
CanLaunch == pc_run = "launch" \/ (pc_run \in BeforeStopCheck /\ ~self.stop)
\* a finisher or a killer changes the output file or its .fixed.mp4
WorkerTouchesFile == workers' # workers /\ (outfile' # outfile \/ fixedfile' # fixedfile)

\* C35: whenever the finalize pass or the abort deletion changes the output file,
\* the session's engine is not running and can no longer be launched.
C35_FileTouchedAfterEngine ==
    [][WorkerTouchesFile => engine.state # "running" /\ ~CanLaunch]_vars

\* session j's engine is running and has the file at path p open
Writes(j, p) == sessions[j].engine.state = "running" /\ disk[p].writer = j
\* session i's finisher or killer takes a step
WorkerActs(i) ==
    sessions[i].worker \notin {"none", "done"} /\ sessions'[i].worker # sessions[i].worker

\* C32: a step of one session's finisher or killer leaves every other session's
\* engine unsignalled, and changes no file that another session's running engine
\* is writing.
C32_SessionsIndependent ==
    [][\A i, j \in SessionIds :
          (i # j /\ WorkerActs(i)) =>
             /\ sessions'[j].engine.signalled = sessions[j].engine.signalled
             /\ \A p \in PairOutputs : Writes(j, p) => disk'[p] = disk[p]]_vars

====
